---- MODULE Spec2Model ----
(***************************************************************************)
(* Model of drivers/staging/android/lowmemorykiller.c (ENHANCED_LMK_ROUTINE,*)
(* LMK_COUNT_READ and CONFIG_ZRAM_FOR_ANDROID builds, 32-bit target).       *)
(*                                                                         *)
(* lowmem_shrink is modelled as a state machine per invoker: the shrinker   *)
(* entry with its trylock, the sampling of the memory counters with the     *)
(* threshold lookup, one step per iteration of for_each_process, one step   *)
(* per slot of the kill loop and the common exit.  The environment is the   *)
(* clock (jiffies), processes leaving the task list and fork events.        *)
(***************************************************************************)
EXTENDS Integers, Sequences, FiniteSets, TLC

(* ------------------------------ bounds -------------------------------- *)

\* ticks per second, scaled down (the kernel's HZ is a build constant)
HZ == 2

\* jiffies run from 0 to one tick past a full hysteresis window; nothing
\* wraps around in that range
MaxJiffies == HZ + 1

\* number of tasks in the process table of the concurrent specification
NTasks == 2

\* longest arrival sequence of the pool specification
MaxCand == 4

\* no invocation starts once the cumulative kill counter has reached the
\* cap: MaxKills in the concurrent, MaxKillsHyst in the hysteresis
\* specification
MaxKills == 2

MaxKillsHyst == 4

\* number of tasks in the process table of the hysteresis specification
NHyst == 4

\* number of tasks in the process table of the filter specification
NFilter == 3

(* ------------------------- program constants -------------------------- *)

LOWMEM_DEATHPENDING_DEPTH == 3

\* ARRAY_SIZE(lowmem_adj): the six fixed slots of every table
TABLE_SLOTS == 6

OOM_SCORE_ADJ_MAX == 1000

OOM_ADJUST_MAX == 15

\* static uint32_t lowmem_only_kswapd_sleep = 1 (never written afterwards)
lowmem_only_kswapd_sleep == 1

NULL == 0

\* lines 57-58: defaults of min_freeswap and min_reclaim, in pages
MIN_FREESWAP_PAGES == 8192

MIN_RECLAIM_PAGES == 512

\* line 59
MIN_CSWAP_INTERVAL == 10 * HZ

Slots == 0 .. (LOWMEM_DEATHPENDING_DEPTH - 1)

Idx == 0 .. (TABLE_SLOTS - 1)

\* a C array of six slots initialised from a shorter initialiser list
Arr6(s) == [k \in Idx |-> IF k < Len(s) THEN s[k + 1] ELSE 0]

(* --------------------------- pure helpers ----------------------------- *)

\* time_before_eq(a, b) of linux/jiffies.h: (long)(a - b) <= 0.  Within
\* 0..MaxJiffies+2*HZ the subtraction never wraps, so it is a plain <=.
time_before_eq_strict(a, b) == a < b

time_before_eq(a, b) == a <= b

\* "int < size_t" on the 32-bit target: the int operand is converted to
\* unsigned, so a negative value becomes a value >= 2^31 and is never below
\* a threshold that is itself below 2^31.  Values are kept as signed
\* integers; the comparison is the unsigned one.
ULess(a, b) ==
    IF (a >= 0) = (b >= 0) THEN a < b ELSE b < 0

CrossedOrEqual(v, thr) == ULess(v, thr) \/ v = thr

\* one operand of the test at lines 284-285: reading < min_array[i]
Crossed(v, thr) == ULess(v, thr)

EntryMatchesOr(free_m_res, file, thr) ==
    Crossed(free_m_res, thr) \/ Crossed(file, thr)

\* the whole test at lines 284-285
EntryMatches(free_m_res, file, thr) ==
    Crossed(free_m_res, thr) /\ Crossed(file, thr)

\* the loop at lines 283-290: the index at which it breaks, or array_size
RECURSIVE LookupIdx(_, _, _, _, _)
LookupIdx(i, array_size, free_m_res, file, min_array) ==
    IF i >= array_size THEN array_size
    ELSE IF EntryMatches(free_m_res, file, min_array[i]) THEN i
    ELSE LookupIdx(i + 1, array_size, free_m_res, file, min_array)

ArraySizeAdjOnly(adj_size, minfree_size) ==
    IF adj_size < TABLE_SLOTS THEN adj_size ELSE TABLE_SLOTS

\* lines 234, 278-281
ArraySize(adj_size, minfree_size) ==
    LET a == IF adj_size < TABLE_SLOTS THEN adj_size ELSE TABLE_SLOTS
    IN  IF minfree_size < a THEN minfree_size ELSE a

BoostedTmpNoAdd(tmp, minfree, boost, minfree_size) ==
    [k \in Idx |-> IF k < minfree_size THEN minfree[k] ELSE tmp[k]]

\* lines 271-272: the boosted thresholds written to minfree_tmp
BoostedTmp(tmp, minfree, boost, minfree_size) ==
    [k \in Idx |-> IF k < minfree_size THEN minfree[k] + boost[k] ELSE tmp[k]]

(* ------------------------- the candidate pool ------------------------- *)

\* lines 365-371: the first slot whose selected[] entry is NULL
FirstEmpty(selected) ==
    CHOOSE i \in Slots :
        /\ selected[i] = NULL
        /\ \A j \in Slots : j < i => selected[j] # NULL

BetterNoTie(adjs, sizes, m, oom_score_adj, tasksize) ==
    adjs[m] < oom_score_adj

\* lines 372-374: the arriving task beats the pool's weakest member
Better(adjs, sizes, m, oom_score_adj, tasksize) ==
    \/ adjs[m] < oom_score_adj
    \/ (adjs[m] = oom_score_adj /\ sizes[m] < tasksize)

\* lines 387-393: the re-scan for the weakest slot, from slot i on, with
\* m the running max_selected_oom_idx
RECURSIVE Weakest(_, _, _, _)
Weakest(i, m, adjs, sizes) ==
    IF i >= LOWMEM_DEATHPENDING_DEPTH THEN m
    ELSE IF adjs[i] < adjs[m] THEN Weakest(i + 1, i, adjs, sizes)
    ELSE IF adjs[i] = adjs[m] /\ sizes[i] < sizes[m]
         THEN Weakest(i + 1, i, adjs, sizes)
    ELSE Weakest(i + 1, m, adjs, sizes)

PoolInsertUncapped(l, p, tasksize, oom_score_adj) ==
    LET filling == l.all_selected_oom < LOWMEM_DEATHPENDING_DEPTH
        idx == IF filling THEN FirstEmpty(l.selected)
               ELSE l.max_selected_oom_idx
        is_exist_oom_task ==
            \/ filling
            \/ Better(l.selected_oom_score_adj, l.selected_tasksize,
                      l.max_selected_oom_idx, oom_score_adj, tasksize)
        sel == [l.selected EXCEPT ![idx] = p]
        sizes == [l.selected_tasksize EXCEPT ![idx] = tasksize]
        adjs == [l.selected_oom_score_adj EXCEPT ![idx] = oom_score_adj]
        n == l.all_selected_oom + 1
    IN  IF is_exist_oom_task
        THEN [l EXCEPT !.selected = sel,
                       !.selected_tasksize = sizes,
                       !.selected_oom_score_adj = adjs,
                       !.all_selected_oom = n,
                       !.max_selected_oom_idx =
                           IF n = LOWMEM_DEATHPENDING_DEPTH
                           THEN Weakest(0, idx, adjs, sizes)
                           ELSE idx]
        ELSE [l EXCEPT !.max_selected_oom_idx = idx]

\* lines 364-399 on the locals l of one invocation, for the task p of
\* resident size tasksize and score oom_score_adj
PoolInsert(l, p, tasksize, oom_score_adj) ==
    LET filling == l.all_selected_oom < LOWMEM_DEATHPENDING_DEPTH
        idx == IF filling THEN FirstEmpty(l.selected)
               ELSE l.max_selected_oom_idx
        is_exist_oom_task ==
            \/ filling
            \/ Better(l.selected_oom_score_adj, l.selected_tasksize,
                      l.max_selected_oom_idx, oom_score_adj, tasksize)
        sel == [l.selected EXCEPT ![idx] = p]
        sizes == [l.selected_tasksize EXCEPT ![idx] = tasksize]
        adjs == [l.selected_oom_score_adj EXCEPT ![idx] = oom_score_adj]
        n == IF filling THEN l.all_selected_oom + 1 ELSE l.all_selected_oom
    IN  IF is_exist_oom_task
        THEN [l EXCEPT !.selected = sel,
                       !.selected_tasksize = sizes,
                       !.selected_oom_score_adj = adjs,
                       !.all_selected_oom = n,
                       !.max_selected_oom_idx =
                           IF n = LOWMEM_DEATHPENDING_DEPTH
                           THEN Weakest(0, idx, adjs, sizes)
                           ELSE idx]
        ELSE [l EXCEPT !.max_selected_oom_idx = idx]

\* line 349: find_lock_task_mm(tsk) fails when no thread of tsk has an mm
find_lock_task_mm(tr) == tr.mm

test_task_flag_never(tr) == FALSE

\* lines 157-171: test_task_flag(tsk, TIF_MEMDIE)
test_task_flag(tr) == tr.memdie

tasksize_skip_negative(tasksize) == tasksize < 0

\* line 360: if (tasksize <= 0) continue
tasksize_skip(tasksize) == tasksize <= 0

adj_skip_never(oom_score_adj, min_score_adj) == FALSE

\* line 354: if (oom_score_adj < min_score_adj) continue
adj_skip(oom_score_adj, min_score_adj) == oom_score_adj < min_score_adj

deadline_after_now(now) == now

\* line 425: lowmem_deathpending_timeout = jiffies + HZ
deadline_after(now) == now + HZ

lmk_count_unchanged(c) == c

\* line 430: lmk_count++
lmk_count_inc(c) == c + 1

mutex_trylock_always(m) == TRUE

\* line 244: mutex_trylock succeeds iff the mutex has no owner
mutex_trylock(m) == m = NULL

(* ------------------------------- state -------------------------------- *)

VARIABLES
    jiffies,                      \* the kernel clock
    tasks,                        \* the process table, in for_each_process order
    lowmem_adj,                   \* static int lowmem_adj[6]
    lowmem_adj_size,
    lowmem_minfree,               \* static int lowmem_minfree[6]
    lowmem_minfree_size,
    lowmem_fork_boost_minfree,    \* static size_t lowmem_fork_boost_minfree[6]
    minfree_tmp,                  \* static size_t minfree_tmp[6]
    lowmem_fork_boost,
    lowmem_fork_boost_timeout,
    lowmem_deathpending_timeout,
    lmk_count,
    lmk_running,                  \* s_reclaim.lmk_running
    scan_mutex,                   \* owner of scan_mutex, NULL when free
    loc,                          \* per invoker: position and locals of lowmem_shrink
    kcompcached_running,          \* s_reclaim.kcompcached_running
    need_to_reclaim,              \* s_reclaim.need_to_reclaim
    kcompcached_enable,           \* s_reclaim.kcompcached_enable
    idle_report,                  \* s_reclaim.idle_report
    rtcc_daemon,                  \* s_reclaim.rtcc_daemon, NULL until registered
    hidden_cgroup_counter,
    prev_jiffy,
    minimum_interval_time,
    cswap_pc,                     \* position of a could_cswap call that is under way
    cswap_reg,                    \* hidden_cgroup_counter as that call loaded it
    kswapd_thread_on,             \* extern atomic_t kswapd_thread_on
    nr_swap_pages,                \* free swap pages
    cpu,                          \* the worker's CPU: busy, idle under load, idle
    kcompcached                   \* s_reclaim.kcompcached, the worker thread

tablevars == <<lowmem_adj, lowmem_adj_size, lowmem_minfree, lowmem_minfree_size,
               lowmem_fork_boost_minfree, lowmem_fork_boost>>

\* the state of the background reclaimer and of what its trigger reads
cswapvars == <<kcompcached_running, need_to_reclaim, kcompcached_enable,
               idle_report, rtcc_daemon, hidden_cgroup_counter, prev_jiffy,
               minimum_interval_time, kswapd_thread_on, nr_swap_pages, cpu,
               kcompcached, cswap_pc, cswap_reg>>

vars == <<jiffies, tasks, tablevars, minfree_tmp, lowmem_fork_boost_timeout,
          lowmem_deathpending_timeout, lmk_count, lmk_running, scan_mutex, loc,
          cswapvars>>

\* the contexts that call the shrinker: 1 is kswapd, 2 a direct reclaimer
Invokers == {1, 2}

current_is_kswapd(p) == p = 1

\* lines 245 and 341: the caller backs off with msleep_interruptible
SleepsOnBackoff(p) ==
    ~(lowmem_only_kswapd_sleep # 0 /\ ~current_is_kswapd(p))

\* lines 119-142: the tables as initialised
DefaultAdj == Arr6(<<0, 1, 6, 12>>)

DefaultMinfree == Arr6(<<3 * 512, 2 * 1024, 4 * 1024, 16 * 1024>>)

DefaultBoost == Arr6(<<0, 0, 0, 5120, 6177, 6177>>)

\* a task_struct as lowmem_shrink reads it
Task(kthread, mm, adj, rss) ==
    [present |-> TRUE, kthread |-> kthread, mm |-> mm,
     oom_score_adj |-> adj, rss |-> rss, memdie |-> FALSE]

\* lines 214-241: the locals of one invocation, before the call; lru, entry,
\* array_size, seen, killed, inwindow and early record what the invocation sampled
\* and did, for the properties below; rcu is the RCU read-side nesting
\* depth the invocation has added to its thread (rcu_read_lock at line 321,
\* rcu_read_unlock at line 336; lines 455 and 462 are compiled out under
\* ENHANCED_LMK_ROUTINE)
InitLoc ==
    [pc |-> "idle", nr_to_scan |-> 0,
     other_free |-> 0, other_file |-> 0, reserved_free |-> 0,
     min_score_adj |-> OOM_SCORE_ADJ_MAX + 1, fork_boost |-> 0,
     rem |-> 0, tsk |-> 0, i |-> 0,
     selected |-> [k \in Slots |-> NULL],
     selected_tasksize |-> [k \in Slots |-> 0],
     selected_oom_score_adj |->
         [k \in Slots |-> IF k = 0 THEN OOM_ADJUST_MAX ELSE 0],
     all_selected_oom |-> 0, max_selected_oom_idx |-> 0,
     ret |-> 0,
     lru |-> 0, entry |-> 0, array_size |-> 0,
     seen |-> <<>>, killed |-> <<>>, inwindow |-> FALSE,
     early |-> FALSE, rcu |-> 0]

ReturnedZero(r) ==
    [InitLoc EXCEPT !.pc = "done", !.ret = 0]

\* the invocation has returned r: its locals are gone, the caller holds r
Returned(r) ==
    [InitLoc EXCEPT !.pc = "done", !.ret = r]

\* lines 651-662: lowmem_init has started the worker and reset the flags;
\* the thread kthread_run created is runnable at the top of do_compcache.
\* woken and ran record, for the properties below, whether wake_up_process
\* was called since the worker last went to sleep and whether it has
\* completed a pass; nr holds what soft_reclaim returned until line 592.
InitReclaim(interval) ==
    /\ kcompcached = [pid |-> 1, pc |-> "top", state |-> "TASK_RUNNING",
                      woken |-> FALSE, ran |-> FALSE, nr |-> 0]
    /\ need_to_reclaim = 0
    /\ kcompcached_running = 0
    /\ idle_report = 0
    /\ kcompcached_enable = 1
    /\ prev_jiffy = 0
    /\ rtcc_daemon = NULL
    /\ hidden_cgroup_counter = 0
    /\ minimum_interval_time = interval
    /\ cswap_pc = "idle"
    /\ cswap_reg = 0

\* the shrinker's globals at load
InitShrink ==
    /\ jiffies = 0
    /\ lowmem_adj = DefaultAdj
    /\ lowmem_adj_size = 4
    /\ lowmem_minfree = DefaultMinfree
    /\ lowmem_minfree_size = 4
    /\ lowmem_fork_boost_minfree = DefaultBoost
    /\ minfree_tmp = Arr6(<<>>)
    /\ lowmem_fork_boost = 0
    /\ lowmem_fork_boost_timeout = 0
    /\ lowmem_deathpending_timeout = 0
    /\ lmk_count = 0
    /\ lmk_running = 0
    /\ scan_mutex = NULL
    /\ loc = [p \in Invokers |-> InitLoc]

\* a system whose CPU is busy: the idle trigger has nothing to do
QuietSystem ==
    /\ kswapd_thread_on = 0
    /\ nr_swap_pages = MIN_FREESWAP_PAGES
    /\ cpu = "busy"

InitCommon ==
    /\ InitShrink
    /\ InitReclaim(MIN_CSWAP_INTERVAL)
    /\ QuietSystem

\* the kinds of task the filters of the scan loop tell apart
TaskKinds ==
    { Task(TRUE, TRUE, 6, 2),     \* kernel thread borrowing an mm (use_mm)
      Task(FALSE, FALSE, 6, 2),   \* exiting: no thread has an mm any more
      Task(FALSE, TRUE, 0, 2),    \* below the cutoff
      Task(FALSE, TRUE, 6, 0),    \* nothing resident
      Task(FALSE, TRUE, 6, 2) }

\* the kinds of task the concurrent specification starts from
ConcKinds ==
    { Task(TRUE, TRUE, 6, 2), Task(FALSE, TRUE, 0, 2), Task(FALSE, TRUE, 6, 2) }

Init ==
    /\ InitCommon
    /\ tasks \in [1 .. NTasks -> ConcKinds]

(* --------------------------- lowmem_shrink ---------------------------- *)

\* lines 238-250: the call and the trylock.  The caller that finds the
\* mutex held returns 0, after msleep_interruptible when it backs off.
Enter(p, n) ==
    /\ loc[p].pc \in {"idle", "done"}
    /\ LET l0 == [InitLoc EXCEPT
                     !.nr_to_scan = n,
                     !.inwindow = (lmk_count > 0 /\
                                   jiffies <= lowmem_deathpending_timeout)]
       IN  IF n > 0
           THEN IF mutex_trylock(scan_mutex)
                THEN /\ scan_mutex' = p
                     /\ loc' = [loc EXCEPT ![p] = [l0 EXCEPT !.pc = "sample"]]
                ELSE /\ scan_mutex' = scan_mutex
                     /\ loc' = [loc EXCEPT ![p] =
                           IF SleepsOnBackoff(p)
                           THEN [l0 EXCEPT !.pc = "contended"]
                           ELSE Returned(0)]
           ELSE /\ scan_mutex' = scan_mutex
                /\ loc' = [loc EXCEPT ![p] = [l0 EXCEPT !.pc = "sample"]]
    /\ UNCHANGED <<jiffies, tasks, tablevars, cswapvars, minfree_tmp,
                   lowmem_fork_boost_timeout, lowmem_deathpending_timeout,
                   lmk_count, lmk_running>>

ContendedReturnViaExit(p) ==
    /\ loc[p].pc = "contended"
    /\ lmk_running' = 0
    /\ loc' = [loc EXCEPT ![p] = Returned(0)]
    /\ UNCHANGED <<jiffies, tasks, tablevars, cswapvars, minfree_tmp,
                   lowmem_fork_boost_timeout, lowmem_deathpending_timeout,
                   lmk_count, scan_mutex>>

\* lines 246-248: the sleep is over, return 0
ContendedReturn(p) ==
    /\ loc[p].pc = "contended"
    /\ loc' = [loc EXCEPT ![p] = Returned(0)]
    /\ UNCHANGED <<jiffies, tasks, tablevars, cswapvars, minfree_tmp,
                   lowmem_fork_boost_timeout, lowmem_deathpending_timeout,
                   lmk_count, lmk_running, scan_mutex>>

\* lines 252-267: read reserved_free, other_free and other_file
Sample(p, free, file, reserved) ==
    /\ loc[p].pc = "sample"
    /\ loc' = [loc EXCEPT ![p].other_free = free, ![p].other_file = file,
                          ![p].reserved_free = reserved, ![p].pc = "lookup"]
    /\ UNCHANGED <<jiffies, tasks, tablevars, cswapvars, minfree_tmp,
                   lowmem_fork_boost_timeout, lowmem_deathpending_timeout,
                   lmk_count, lmk_running, scan_mutex>>

\* lines 269-272, one iteration of the loop that fills minfree_tmp: entry i
\* is stored, with no lock taken when nr_to_scan is 0.  Lookup completes the
\* loop from wherever it stands and reads the table.
minfree_tmp_store(p) ==
    /\ loc[p].pc = "lookup"
    /\ lowmem_fork_boost # 0
    /\ time_before_eq(jiffies, lowmem_fork_boost_timeout)
    /\ loc[p].i < lowmem_minfree_size
    /\ minfree_tmp' = [minfree_tmp EXCEPT ![loc[p].i] =
                           lowmem_minfree[loc[p].i] +
                           lowmem_fork_boost_minfree[loc[p].i]]
    /\ loc' = [loc EXCEPT ![p].i = loc[p].i + 1]
    /\ UNCHANGED <<jiffies, tasks, tablevars, cswapvars,
                   lowmem_fork_boost_timeout, lowmem_deathpending_timeout,
                   lmk_count, lmk_running, scan_mutex>>

\* lines 269-319: look the cutoff up, read the LRU total (lru, lines
\* 296-299), return on the fast path or start the scan
Lookup(p, lru) ==
    /\ loc[p].pc = "lookup"
    /\ LET l == loc[p]
           boosted == lowmem_fork_boost # 0 /\
                      time_before_eq(jiffies, lowmem_fork_boost_timeout)
           tmp == IF boosted
                  THEN BoostedTmp(minfree_tmp, lowmem_minfree,
                                  lowmem_fork_boost_minfree, lowmem_minfree_size)
                  ELSE minfree_tmp
           min_array == IF boosted THEN tmp ELSE lowmem_minfree
           array_size == ArraySize(lowmem_adj_size, lowmem_minfree_size)
           i == LookupIdx(0, array_size, l.other_free - l.reserved_free,
                          l.other_file, min_array)
           min_score_adj == IF i < array_size THEN lowmem_adj[i]
                            ELSE OOM_SCORE_ADJ_MAX + 1
           l1 == [l EXCEPT !.min_score_adj = min_score_adj,
                           !.fork_boost = IF i < array_size
                                          THEN lowmem_fork_boost_minfree[i]
                                          ELSE 0,
                           !.rem = lru, !.lru = lru, !.entry = i,
                           !.array_size = array_size, !.i = 0]
       IN  /\ minfree_tmp' = tmp
           /\ IF l.nr_to_scan <= 0 \/ min_score_adj = OOM_SCORE_ADJ_MAX + 1
              THEN /\ scan_mutex' = IF l.nr_to_scan > 0 THEN NULL ELSE scan_mutex
                   /\ lmk_running' = lmk_running
                   /\ loc' = [loc EXCEPT ![p] = Returned(l1.rem)]
              ELSE /\ scan_mutex' = scan_mutex
                   /\ lmk_running' = 1
                   /\ loc' = [loc EXCEPT ![p] =
                         [l1 EXCEPT
                             !.selected_oom_score_adj =
                                 [k \in Slots |-> min_score_adj],
                             !.tsk = 1,
                             !.rcu = l.rcu + 1,
                             !.pc = IF Len(tasks) = 0 THEN "kill" ELSE "scan"]]
    /\ UNCHANGED <<jiffies, tasks, tablevars, cswapvars, lowmem_fork_boost_timeout,
                   lowmem_deathpending_timeout, lmk_count>>

\* what the loop body read of task t, appended to seen
Observed(t, tr, inwin) ==
    [task |-> t, kthread |-> tr.kthread, mm |-> tr.mm,
     oom_score_adj |-> tr.oom_score_adj, rss |-> tr.rss,
     memdie |-> tr.memdie, inwindow |-> inwin]

AdvanceRetry(l, t) ==
    [l EXCEPT !.i = 0, !.pc = "scan"]

AdvanceWrap(l, t) ==
    [l EXCEPT !.tsk = IF t + 1 > Len(tasks) THEN 1 ELSE t + 1,
              !.i = 0,
              !.pc = "scan"]

\* for_each_process: the position after task t, and the end of the loop
Advance(l, t) ==
    [l EXCEPT !.tsk = t + 1,
              !.i = 0,
              !.pc = IF t + 1 > Len(tasks) THEN "kill" ELSE "scan"]

ScanAbortKeepsRunning(p, l) ==
    /\ lmk_running' = lmk_running
    /\ IF SleepsOnBackoff(p)
       THEN /\ scan_mutex' = scan_mutex
            /\ loc' = [loc EXCEPT ![p] =
                  [l EXCEPT !.pc = "abort_sleep"]]
       ELSE /\ scan_mutex' = NULL
            /\ loc' = [loc EXCEPT ![p] = Returned(0)]

\* lines 336-345: the hysteresis abort, up to the optional sleep
ScanAbort(p, l) ==
    /\ lmk_running' = 0
    /\ IF SleepsOnBackoff(p)
       THEN /\ scan_mutex' = scan_mutex
            /\ loc' = [loc EXCEPT ![p] =
                  [l EXCEPT !.rcu = l.rcu - 1, !.pc = "abort_sleep"]]
       ELSE /\ scan_mutex' = NULL
            /\ loc' = [loc EXCEPT ![p] = Returned(0)]

\* lines 322-415: one iteration of for_each_process, on the task at tsk
ScanStep(p) ==
    /\ loc[p].pc = "scan"
    /\ loc[p].tsk <= Len(tasks)
    /\ LET t == loc[p].tsk
           tr == tasks[t]
           inwin == time_before_eq(jiffies, lowmem_deathpending_timeout)
           l == [loc[p] EXCEPT !.seen = Append(@, Observed(t, tr, inwin))]
       IN  IF ~tr.present
           THEN /\ loc' = [loc EXCEPT ![p] = Advance(loc[p], t)]
                /\ UNCHANGED <<lmk_running, scan_mutex>>
           ELSE IF tr.kthread
           THEN /\ loc' = [loc EXCEPT ![p] = Advance(l, t)]
                /\ UNCHANGED <<lmk_running, scan_mutex>>
           ELSE IF inwin /\ test_task_flag(tr)
           THEN ScanAbort(p, l)
           ELSE IF \/ ~find_lock_task_mm(tr)
                   \/ adj_skip(tr.oom_score_adj, l.min_score_adj)
                   \/ tasksize_skip(tr.rss)
           THEN /\ loc' = [loc EXCEPT ![p] = Advance(l, t)]
                /\ UNCHANGED <<lmk_running, scan_mutex>>
           ELSE /\ loc' = [loc EXCEPT ![p] =
                      Advance(PoolInsert(l, t, tr.rss, tr.oom_score_adj), t)]
                /\ UNCHANGED <<lmk_running, scan_mutex>>
    /\ UNCHANGED <<jiffies, tasks, tablevars, cswapvars, minfree_tmp,
                   lowmem_fork_boost_timeout, lowmem_deathpending_timeout,
                   lmk_count>>

\* lines 341-345: after the sleep, unlock and return 0
AbortReturn(p) ==
    /\ loc[p].pc = "abort_sleep"
    /\ scan_mutex' = NULL
    /\ loc' = [loc EXCEPT ![p] = Returned(0)]
    /\ UNCHANGED <<jiffies, tasks, tablevars, cswapvars, minfree_tmp,
                   lowmem_fork_boost_timeout, lowmem_deathpending_timeout,
                   lmk_count, lmk_running>>

\* lines 418-433: one iteration of the kill loop, on slot i
KillStep(p) ==
    /\ loc[p].pc = "kill"
    /\ LET l == loc[p]
           i == l.i
           victim == l.selected[i]
           nxt == IF i + 1 >= LOWMEM_DEATHPENDING_DEPTH THEN "exit" ELSE "kill"
       IN  IF victim # NULL
           THEN /\ lowmem_deathpending_timeout' = deadline_after(jiffies)
                /\ tasks' = [tasks EXCEPT ![victim].memdie = TRUE]
                /\ lmk_count' = lmk_count_inc(lmk_count)
                /\ loc' = [loc EXCEPT ![p] =
                      [l EXCEPT !.rem = l.rem - l.selected_tasksize[i],
                                !.killed = Append(@, victim),
                                !.early = @ \/ (l.killed = <<>>
                                    /\ lmk_count > 0
                                    /\ jiffies <= lowmem_deathpending_timeout),
                                !.i = i + 1, !.pc = nxt]]
           ELSE /\ loc' = [loc EXCEPT ![p] = [l EXCEPT !.i = i + 1, !.pc = nxt]]
                /\ UNCHANGED <<lowmem_deathpending_timeout, tasks, lmk_count>>
    /\ UNCHANGED <<jiffies, tablevars, cswapvars, minfree_tmp, lowmem_fork_boost_timeout,
                   lmk_running, scan_mutex>>

ExitStepKeepsLock(p) ==
    /\ loc[p].pc = "exit"
    /\ lmk_running' = 0
    /\ loc' = [loc EXCEPT ![p] = Returned(loc[p].rem)]
    /\ UNCHANGED <<jiffies, tasks, tablevars, cswapvars, minfree_tmp,
                   lowmem_fork_boost_timeout, lowmem_deathpending_timeout,
                   lmk_count, scan_mutex>>

ExitStepKeepsRunning(p) ==
    /\ loc[p].pc = "exit"
    /\ scan_mutex' = NULL
    /\ loc' = [loc EXCEPT ![p] =
          [Returned(loc[p].rem) EXCEPT !.rcu = loc[p].rcu]]
    /\ UNCHANGED <<jiffies, tasks, tablevars, cswapvars, minfree_tmp,
                   lowmem_fork_boost_timeout, lowmem_deathpending_timeout,
                   lmk_count, lmk_running>>

\* lines 464-470: the common exit of a completed scan
ExitStep(p) ==
    /\ loc[p].pc = "exit"
    /\ lmk_running' = 0
    /\ scan_mutex' = NULL
    /\ loc' = [loc EXCEPT ![p] =
          [Returned(loc[p].rem) EXCEPT !.rcu = loc[p].rcu]]
    /\ UNCHANGED <<jiffies, tasks, tablevars, cswapvars, minfree_tmp,
                   lowmem_fork_boost_timeout, lowmem_deathpending_timeout,
                   lmk_count>>

(* ---------------------------- environment ----------------------------- *)

\* the timer interrupt
Tick ==
    /\ jiffies < MaxJiffies
    /\ jiffies' = jiffies + 1
    /\ UNCHANGED <<tasks, tablevars, cswapvars, minfree_tmp, lowmem_fork_boost_timeout,
                   lowmem_deathpending_timeout, lmk_count, lmk_running,
                   scan_mutex, loc>>

\* a signalled process dies of its SIGKILL and leaves the task list
TaskExit(t) ==
    /\ t \in DOMAIN tasks
    /\ tasks[t].present
    /\ tasks[t].memdie
    /\ tasks' = [tasks EXCEPT ![t].present = FALSE, ![t].mm = FALSE]
    /\ UNCHANGED <<jiffies, tablevars, cswapvars, minfree_tmp, lowmem_fork_boost_timeout,
                   lowmem_deathpending_timeout, lmk_count, lmk_running,
                   scan_mutex, loc>>

\* lines 180-186: task_fork_notify_func
task_fork_notify_func ==
    /\ lowmem_fork_boost_timeout' = jiffies + 2 * HZ
    /\ UNCHANGED <<jiffies, tasks, tablevars, cswapvars, minfree_tmp,
                   lowmem_deathpending_timeout, lmk_count, lmk_running,
                   scan_mutex, loc>>

(* ----------------------- background reclaimer ------------------------ *)

\* everything lowmem_shrink and the parameters own
shrinkvars == <<tasks, tablevars, minfree_tmp, lowmem_fork_boost_timeout,
                lowmem_deathpending_timeout, lmk_count, lmk_running,
                scan_mutex, loc>>

time_before_never(a, b) == FALSE

\* time_before(a, b) of linux/jiffies.h: (long)(a - b) < 0, a plain <
\* where nothing wraps
time_before(a, b) == a < b

\* line 495: idle_cpu(task_cpu(kcompcached)) and this_cpu_loadx(4)
idle_cpu(c) == c # "busy"

this_cpu_loadx(c) == IF c = "idle" THEN 0 ELSE 1

foreground_active_kswapd_only(lmk, kswapd) == kswapd = 1

\* line 482: a foreground scan or kswapd is at work
foreground_active(lmk, kswapd) == lmk = 1 \/ kswapd = 1

\* wake_up_process: a sleeping thread becomes runnable, a runnable one
\* stays as it is
wake_up_process(k) == [k EXCEPT !.state = "TASK_RUNNING", !.woken = TRUE]

\* lines 474-517: could_cswap, called from the idle path
could_cswap ==
    /\ IF \/ (hidden_cgroup_counter <= 0 /\ need_to_reclaim # 1)
          \/ time_before(jiffies, prev_jiffy + minimum_interval_time)
          \/ foreground_active(lmk_running, kswapd_thread_on)
          \/ nr_swap_pages < MIN_FREESWAP_PAGES
          \/ kcompcached.pid = NULL
          \/ kcompcached_enable = 0
          \/ ~(idle_cpu(cpu) /\ this_cpu_loadx(cpu) = 0)
       THEN UNCHANGED <<kcompcached, kcompcached_running, idle_report,
                        prev_jiffy, hidden_cgroup_counter>>
       ELSE IF idle_report = 1 /\ hidden_cgroup_counter > 0
               /\ rtcc_daemon # NULL
       THEN /\ hidden_cgroup_counter' = hidden_cgroup_counter - 1
            /\ idle_report' = 0
            /\ prev_jiffy' = jiffies
            /\ UNCHANGED <<kcompcached, kcompcached_running>>
       ELSE IF need_to_reclaim # 1
       THEN /\ idle_report' = 1
            /\ UNCHANGED <<kcompcached, kcompcached_running, prev_jiffy,
                           hidden_cgroup_counter>>
       ELSE IF kcompcached_running = 0
       THEN /\ kcompcached' = wake_up_process(kcompcached)
            /\ kcompcached_running' = 1
            /\ idle_report' = 1
            /\ prev_jiffy' = jiffies
            /\ UNCHANGED hidden_cgroup_counter
       ELSE UNCHANGED <<kcompcached, kcompcached_running, idle_report,
                        prev_jiffy, hidden_cgroup_counter>>
    /\ UNCHANGED <<jiffies, shrinkvars, need_to_reclaim, kcompcached_enable,
                   rtcc_daemon, minimum_interval_time, kswapd_thread_on,
                   nr_swap_pages, cpu, cswap_pc, cswap_reg>>

(* The same call statement by statement, for the interleavings with the
   worker: the reads up to line 510, wake_up_process at line 511, and the
   writes of lines 512-514. *)

\* the worker is blocked in schedule(): it is on no run queue, which is
\* what idle_cpu of its CPU at line 494 requires of it
WorkerOffCpu ==
    kcompcached.pc = "schedule" /\ kcompcached.state = "TASK_INTERRUPTIBLE"

\* lines 476-510 find every condition of the wake satisfied
ReachesWake ==
    /\ ~(hidden_cgroup_counter <= 0 /\ need_to_reclaim # 1)
    /\ ~time_before(jiffies, prev_jiffy + minimum_interval_time)
    /\ ~foreground_active(lmk_running, kswapd_thread_on)
    /\ ~(nr_swap_pages < MIN_FREESWAP_PAGES)
    /\ kcompcached.pid # NULL
    /\ kcompcached_enable # 0
    /\ idle_cpu(cpu) /\ this_cpu_loadx(cpu) = 0
    /\ ~(idle_report = 1 /\ hidden_cgroup_counter > 0 /\ rtcc_daemon # NULL)
    /\ need_to_reclaim = 1
    /\ kcompcached_running = 0

\* what a step inside could_cswap leaves alone
CswapFrame ==
    UNCHANGED <<jiffies, shrinkvars, need_to_reclaim, kcompcached_enable,
                rtcc_daemon, hidden_cgroup_counter, minimum_interval_time,
                kswapd_thread_on, nr_swap_pages, cpu, cswap_reg>>

\* lines 476-510: the call reads its way to the wake
cswap_check ==
    /\ cswap_pc = "idle"
    /\ ReachesWake
    /\ WorkerOffCpu
    /\ cswap_pc' = "wake"
    /\ UNCHANGED <<kcompcached, kcompcached_running, idle_report, prev_jiffy>>
    /\ CswapFrame

\* line 511: wake_up_process(s_reclaim.kcompcached)
cswap_wake ==
    /\ cswap_pc = "wake"
    /\ kcompcached' = wake_up_process(kcompcached)
    /\ cswap_pc' = "set"
    /\ UNCHANGED <<kcompcached_running, idle_report, prev_jiffy>>
    /\ CswapFrame

\* lines 512-514: kcompcached_running := 1, idle_report := 1,
\* prev_jiffy := jiffies
cswap_set_running ==
    /\ cswap_pc = "set"
    /\ kcompcached_running' = 1
    /\ idle_report' = 1
    /\ prev_jiffy' = jiffies
    /\ cswap_pc' = "idle"
    /\ UNCHANGED kcompcached
    /\ CswapFrame

\* lines 476-496 find every condition of the report to the rtcc daemon
\* satisfied
ReachesReport ==
    /\ ~(hidden_cgroup_counter <= 0 /\ need_to_reclaim # 1)
    /\ ~time_before(jiffies, prev_jiffy + minimum_interval_time)
    /\ ~foreground_active(lmk_running, kswapd_thread_on)
    /\ ~(nr_swap_pages < MIN_FREESWAP_PAGES)
    /\ kcompcached.pid # NULL
    /\ kcompcached_enable # 0
    /\ idle_cpu(cpu) /\ this_cpu_loadx(cpu) = 0
    /\ idle_report = 1
    /\ hidden_cgroup_counter > 0
    /\ rtcc_daemon # NULL

\* what a step of the report leaves alone
ReportFrame ==
    UNCHANGED <<jiffies, shrinkvars, need_to_reclaim, kcompcached_enable,
                rtcc_daemon, minimum_interval_time, kswapd_thread_on,
                nr_swap_pages, cpu, kcompcached, kcompcached_running>>

\* lines 476-496: the call reads its way into the report branch
cswap_check_report ==
    /\ cswap_pc = "idle"
    /\ ReachesReport
    /\ cswap_pc' = "signal"
    /\ UNCHANGED <<hidden_cgroup_counter, idle_report, prev_jiffy, cswap_reg>>
    /\ ReportFrame

\* lines 497-498: send_sig(SIGUSR1, rtcc_daemon), then the load of the
\* plain int hidden_cgroup_counter for the decrement
cswap_load_counter ==
    /\ cswap_pc = "signal"
    /\ cswap_reg' = hidden_cgroup_counter
    /\ cswap_pc' = "store"
    /\ UNCHANGED <<hidden_cgroup_counter, idle_report, prev_jiffy>>
    /\ ReportFrame

\* lines 498-501: the store of the decremented value, idle_report := 0,
\* prev_jiffy := jiffies, return
cswap_store_counter ==
    /\ cswap_pc = "store"
    /\ hidden_cgroup_counter' = cswap_reg - 1
    /\ idle_report' = 0
    /\ prev_jiffy' = jiffies
    /\ cswap_pc' = "idle"
    /\ cswap_reg' = 0
    /\ ReportFrame

\* what a worker step leaves alone
WorkerFrame ==
    UNCHANGED <<jiffies, shrinkvars, kcompcached_enable, idle_report,
                rtcc_daemon, hidden_cgroup_counter, prev_jiffy,
                minimum_interval_time, kswapd_thread_on, nr_swap_pages, cpu,
                cswap_pc, cswap_reg>>

\* lines 584-589: the top of the loop; the thread is neither frozen nor
\* stopped and enters soft_reclaim
compcache_begin ==
    /\ kcompcached.pc = "top"
    /\ kcompcached' = [kcompcached EXCEPT !.pc = "soft_reclaim"]
    /\ UNCHANGED <<kcompcached_running, need_to_reclaim>>
    /\ WorkerFrame

reclaimed_too_few_or_equal(nr, min) == nr <= min

\* line 589: soft_reclaim() < minimun_reclaim_pages
reclaimed_too_few(nr, min) == nr < min

\* lines 589-590: soft_reclaim returns nr pages; too few cancel the request
compcache_reclaimed(nr) ==
    /\ kcompcached.pc = "soft_reclaim"
    /\ need_to_reclaim' = IF reclaimed_too_few(nr, MIN_RECLAIM_PAGES)
                          THEN 0 ELSE need_to_reclaim
    /\ kcompcached' = [kcompcached EXCEPT !.pc = "clear", !.nr = nr]
    /\ UNCHANGED kcompcached_running
    /\ WorkerFrame

\* line 592: atomic_set(&s_reclaim.kcompcached_running, 0)
compcache_clear ==
    /\ kcompcached.pc = "clear"
    /\ kcompcached_running' = 0
    /\ kcompcached' = [kcompcached EXCEPT !.pc = "set_state", !.ran = TRUE,
                                          !.nr = 0]
    /\ UNCHANGED need_to_reclaim
    /\ WorkerFrame

\* line 593: set_current_state(TASK_INTERRUPTIBLE)
compcache_set_state ==
    /\ kcompcached.pc = "set_state"
    /\ kcompcached' = [kcompcached EXCEPT !.pc = "schedule",
                                          !.state = "TASK_INTERRUPTIBLE",
                                          !.woken = FALSE]
    /\ UNCHANGED <<kcompcached_running, need_to_reclaim>>
    /\ WorkerFrame

schedule_returns_at_once(k) == TRUE

\* schedule() hands the CPU back once the thread is runnable again
schedule_returns(k) == k.state = "TASK_RUNNING"

\* line 594 and the loop back to line 584
compcache_schedule ==
    /\ kcompcached.pc = "schedule"
    /\ schedule_returns(kcompcached)
    /\ kcompcached' = [kcompcached EXCEPT !.pc = "top",
                                          !.state = "TASK_RUNNING"]
    /\ UNCHANGED <<kcompcached_running, need_to_reclaim>>
    /\ WorkerFrame

\* what a change of the trigger's inputs leaves alone
InputFrame ==
    UNCHANGED <<jiffies, shrinkvars, kcompcached_running, prev_jiffy,
                minimum_interval_time, kcompcached, cswap_pc, cswap_reg>>

\* lines 529-532: need_soft_reclaim, and lines 534-537: cancel_soft_reclaim
need_soft_reclaim ==
    /\ need_to_reclaim' = 1
    /\ UNCHANGED <<kcompcached_enable, idle_report, rtcc_daemon,
                   hidden_cgroup_counter, kswapd_thread_on, nr_swap_pages, cpu>>
    /\ InputFrame

\* lines 519-527: enable_soft_reclaim and disable_soft_reclaim
set_soft_reclaim(v) ==
    /\ kcompcached_enable' = v
    /\ UNCHANGED <<need_to_reclaim, idle_report, rtcc_daemon,
                   hidden_cgroup_counter, kswapd_thread_on, nr_swap_pages, cpu>>
    /\ InputFrame

\* lines 599-624: rtcc_daemon_store with the pid of a running rtccd
rtcc_daemon_store ==
    /\ rtcc_daemon' = 1
    /\ idle_report' = 1
    /\ UNCHANGED <<need_to_reclaim, kcompcached_enable,
                   hidden_cgroup_counter, kswapd_thread_on, nr_swap_pages, cpu>>
    /\ InputFrame

\* line 93: hidden_cgroup_counter is raised outside this file
hidden_cgroup_raise ==
    /\ hidden_cgroup_counter = 0
    /\ hidden_cgroup_counter' = 1
    /\ UNCHANGED <<need_to_reclaim, kcompcached_enable, idle_report,
                   rtcc_daemon, kswapd_thread_on, nr_swap_pages, cpu>>
    /\ InputFrame

\* the rest of the system as could_cswap finds it: kswapd, the free swap
\* and the load of the worker's CPU
SystemChanges(kswapd, swap, c) ==
    /\ kswapd_thread_on' = kswapd
    /\ nr_swap_pages' = swap
    /\ cpu' = c
    /\ UNCHANGED <<need_to_reclaim, kcompcached_enable, idle_report,
                   rtcc_daemon, hidden_cgroup_counter>>
    /\ InputFrame

(* ------------------------- module parameters -------------------------- *)

param_array_keep(arr, vals) == arr

\* lines 772-776 and 778-779: module_param_array_named declares a plain
\* array parameter; a write stores the elements of the list in order from
\* slot 0 on and leaves the slots behind them as they were
param_array_store(arr, vals) ==
    [k \in Idx |-> IF k < Len(vals) THEN vals[k + 1] ELSE arr[k]]

\* lines 772-773: a write to /sys/module/lowmemorykiller/parameters/adj
param_set_adj(vals) ==
    /\ Len(vals) <= TABLE_SLOTS
    /\ lowmem_adj' = param_array_store(lowmem_adj, vals)
    /\ lowmem_adj_size' = Len(vals)
    /\ UNCHANGED <<jiffies, tasks, lowmem_minfree, lowmem_minfree_size,
                   lowmem_fork_boost_minfree, lowmem_fork_boost, cswapvars,
                   minfree_tmp, lowmem_fork_boost_timeout,
                   lowmem_deathpending_timeout, lmk_count, lmk_running,
                   scan_mutex, loc>>

\* lines 775-776: a write to .../parameters/minfree
param_set_minfree(vals) ==
    /\ Len(vals) <= TABLE_SLOTS
    /\ lowmem_minfree' = param_array_store(lowmem_minfree, vals)
    /\ lowmem_minfree_size' = Len(vals)
    /\ UNCHANGED <<jiffies, tasks, lowmem_adj, lowmem_adj_size,
                   lowmem_fork_boost_minfree, lowmem_fork_boost, cswapvars,
                   minfree_tmp, lowmem_fork_boost_timeout,
                   lowmem_deathpending_timeout, lmk_count, lmk_running,
                   scan_mutex, loc>>

\* line 777: a write to .../parameters/fork_boost
param_set_fork_boost(v) ==
    /\ lowmem_fork_boost' = v
    /\ UNCHANGED <<jiffies, tasks, lowmem_adj, lowmem_adj_size, lowmem_minfree,
                   lowmem_minfree_size, lowmem_fork_boost_minfree, cswapvars,
                   minfree_tmp, lowmem_fork_boost_timeout,
                   lowmem_deathpending_timeout, lmk_count, lmk_running,
                   scan_mutex, loc>>

(* --------------------------- specifications --------------------------- *)

\* the counters an invocation of the concurrent specification may read
FreeSet == {1800, 20000}

FileSet == {500}

ReservedSet == {0}

LruSet == {10}

Next ==
    \/ \E p \in Invokers, n \in {0, 1} : lmk_count < MaxKills /\ Enter(p, n)
    \/ \E p \in Invokers : ContendedReturn(p)
    \/ \E p \in Invokers, free \in FreeSet, file \in FileSet,
          reserved \in ReservedSet : Sample(p, free, file, reserved)
    \/ \E p \in Invokers, lru \in LruSet : Lookup(p, lru)
    \/ \E p \in Invokers : ScanStep(p)
    \/ \E p \in Invokers : AbortReturn(p)
    \/ \E p \in Invokers : KillStep(p)
    \/ \E p \in Invokers : ExitStep(p)
    \/ Tick
    \/ \E t \in DOMAIN tasks : TaskExit(t)

Spec == Init /\ [][Next]_vars

(* A second specification for the selection itself: process tables of up   *)
(* to MaxCand user tasks in every arrival order, scanned by one invocation  *)
(* at a time (kswapd or a direct reclaimer) until a pass has killed.        *)

\* (oom_score_adj, resident pages) of the tasks of the pool specification
PoolPairs == {<<5, 100>>, <<8, 50>>, <<8, 200>>, <<3, 900>>}

PoolKinds == {Task(FALSE, TRUE, c[1], c[2]) : c \in PoolPairs}

InitPool ==
    /\ InitCommon
    /\ tasks \in UNION {[1 .. n -> PoolKinds] : n \in 0 .. MaxCand}

\* other_free readings of the pool specification: cutoff 0 and cutoff 6
PoolFreeSet == {1000, 3000}

NoneRunning == \A q \in Invokers : loc[q].pc \in {"idle", "done"}

NextPool ==
    \/ \E p \in Invokers : NoneRunning /\ lmk_count = 0 /\ Enter(p, 1)
    \/ \E p \in Invokers, free \in PoolFreeSet, file \in FileSet,
          reserved \in ReservedSet : Sample(p, free, file, reserved)
    \/ \E p \in Invokers, lru \in LruSet : Lookup(p, lru)
    \/ \E p \in Invokers : ScanStep(p)
    \/ \E p \in Invokers : KillStep(p)
    \/ \E p \in Invokers : ExitStep(p)

SpecPool == InitPool /\ [][NextPool]_vars

(* A specification for the filters of the scan loop: tables of NFilter     *)
(* tasks of every kind in every order, scanned by one invocation while the  *)
(* tasks it has signalled die.                                              *)

InitFilter ==
    /\ InitCommon
    /\ tasks \in [1 .. NFilter -> TaskKinds]

NextFilter ==
    \/ \E p \in Invokers, n \in {0, 1} :
          NoneRunning /\ lmk_count = 0 /\ Enter(p, n)
    \/ \E p \in Invokers, free \in FreeSet, file \in FileSet,
          reserved \in ReservedSet : Sample(p, free, file, reserved)
    \/ \E p \in Invokers, lru \in LruSet : Lookup(p, lru)
    \/ \E p \in Invokers : ScanStep(p)
    \/ \E p \in Invokers : KillStep(p)
    \/ \E p \in Invokers : ExitStep(p)
    \/ \E t \in DOMAIN tasks : TaskExit(t)

SpecFilter == InitFilter /\ [][NextFilter]_vars

(* A third specification for the hysteresis: tables of NHyst eligible user  *)
(* tasks, so that a pass leaves eligible tasks behind, scanned by one       *)
(* invocation after the other while the clock runs and victims die.         *)

HystKinds == {Task(FALSE, TRUE, 8, 200), Task(FALSE, TRUE, 5, 100)}

InitHyst ==
    /\ InitCommon
    /\ tasks \in [1 .. NHyst -> HystKinds]

HystFreeSet == {1000}

NextHyst ==
    \/ \E p \in Invokers :
           NoneRunning /\ lmk_count < MaxKillsHyst /\ Enter(p, 1)
    \/ \E p \in Invokers, free \in HystFreeSet, file \in FileSet,
          reserved \in ReservedSet : Sample(p, free, file, reserved)
    \/ \E p \in Invokers, lru \in LruSet : Lookup(p, lru)
    \/ \E p \in Invokers : ScanStep(p)
    \/ \E p \in Invokers : AbortReturn(p)
    \/ \E p \in Invokers : KillStep(p)
    \/ \E p \in Invokers : ExitStep(p)
    \/ Tick
    \/ \E t \in DOMAIN tasks : TaskExit(t)

SpecHyst == InitHyst /\ [][NextHyst]_vars

\* the steps of one invocation of lowmem_shrink after its entry
ShrinkStep(p) ==
    \/ \E free \in HystFreeSet, file \in FileSet, reserved \in ReservedSet :
          Sample(p, free, file, reserved)
    \/ \E lru \in LruSet : Lookup(p, lru)
    \/ ScanStep(p)
    \/ AbortReturn(p)
    \/ KillStep(p)
    \/ ExitStep(p)

InitTerm ==
    /\ InitCommon
    /\ tasks \in [1 .. NTasks -> ConcKinds]

NextTerm ==
    \/ \E p \in Invokers : NoneRunning /\ lmk_count < MaxKills /\ Enter(p, 1)
    \/ \E p \in Invokers : ShrinkStep(p)
    \/ Tick

\* one invocation after the other, under a scheduler that keeps running the
\* thread that is inside lowmem_shrink: the function takes no lock it could
\* block on (trylock) and its sleeps are timed (msleep_interruptible)
SpecTermFair ==
    InitTerm /\ [][NextTerm]_vars /\ \A p \in Invokers : WF_vars(ShrinkStep(p))

(* A fourth specification for the threshold lookup: one invocation at a     *)
(* time over small tables of every shape and over the tables as             *)
(* initialised, with readings at, below and above the thresholds.  The     *)
(* process table is empty.  lowmem_fork_boost_timeout keeps its initial     *)
(* value, so the boost is active at jiffies 0 and over from jiffies 1 on.   *)

ThrSet == {1, 2}

\* the tables a lookup runs over: adj, adj size, minfree, minfree size,
\* boost table, fork_boost switch
LookupConfigs ==
    { <<Arr6(<<0, 1, 6>>), n, Arr6(<<a, b, c>>), m, Arr6(<<0, 1, 1>>), fb>> :
          n \in {2, 3}, a \in ThrSet, b \in ThrSet, c \in ThrSet,
          m \in {2, 3}, fb \in {0, 1} }
    \cup { <<DefaultAdj, 4, DefaultMinfree, 4, DefaultBoost, fb>> : fb \in {0, 1} }

InitLookup ==
    /\ jiffies = 0
    /\ \E c \in LookupConfigs :
          /\ lowmem_adj = c[1]
          /\ lowmem_adj_size = c[2]
          /\ lowmem_minfree = c[3]
          /\ lowmem_minfree_size = c[4]
          /\ lowmem_fork_boost_minfree = c[5]
          /\ lowmem_fork_boost = c[6]
    /\ minfree_tmp = Arr6(<<>>)
    /\ lowmem_fork_boost_timeout = 0
    /\ lowmem_deathpending_timeout = 0
    /\ lmk_count = 0
    /\ lmk_running = 0
    /\ scan_mutex = NULL
    /\ loc = [p \in Invokers |-> InitLoc]
    /\ tasks = <<>>
    /\ InitReclaim(MIN_CSWAP_INTERVAL)
    /\ QuietSystem

LookupFreeSet == {0, 1, 2, 1800}

LookupFileSet == {-1, 0, 1, 2, 500}

LookupReservedSet == {0, 1}

NextLookup ==
    \/ \E p \in Invokers : NoneRunning /\ Enter(p, 1)
    \/ \E p \in Invokers, free \in LookupFreeSet, file \in LookupFileSet,
          reserved \in LookupReservedSet : Sample(p, free, file, reserved)
    \/ \E p \in Invokers, lru \in LruSet : Lookup(p, lru)
    \/ \E p \in Invokers : KillStep(p)
    \/ \E p \in Invokers : ExitStep(p)
    \/ NoneRunning /\ Tick

SpecLookup == InitLookup /\ [][NextLookup]_vars

(* ============================ properties ============================== *)

(* A specification for the configuration: the adj and minfree lists are     *)
(* rewritten through their parameters between lookups.                      *)

\* longest list written in the configuration specification
MaxCfgLen == 2

CfgAdjSet == {0, 6}

CfgMinfreeSet == {1000, 3000}

CfgLists(S) == UNION {[1 .. n -> S] : n \in 1 .. MaxCfgLen}

CfgFreeSet == {500, 2000, 5000}

NextConfig ==
    \/ \E vals \in CfgLists(CfgAdjSet) : param_set_adj(vals)
    \/ \E vals \in CfgLists(CfgMinfreeSet) : param_set_minfree(vals)
    \/ NoneRunning /\ Enter(2, 1)
    \/ \E p \in Invokers, free \in CfgFreeSet, file \in FileSet,
          reserved \in ReservedSet : Sample(p, free, file, reserved)
    \/ \E p \in Invokers, lru \in LruSet : Lookup(p, lru)
    \/ \E p \in Invokers : KillStep(p)
    \/ \E p \in Invokers : ExitStep(p)

InitConfig ==
    /\ InitCommon
    /\ tasks = <<>>

SpecConfig == InitConfig /\ [][NextConfig]_vars


(* A specification for the idle trigger: could_cswap under every change of *)
(* what it reads, with the worker thread and, over an empty process table,  *)
(* one invocation of the shrinker after the other.                          *)

\* min_interval as set for the reclaimer specification, in ticks
CswapInterval == 1

CpuSet == {"busy", "idle_loaded", "idle"}

SwapSet == {MIN_FREESWAP_PAGES - 1, MIN_FREESWAP_PAGES}

\* pages a soft_reclaim pass may report
ReclaimedSet == {0, MIN_RECLAIM_PAGES - 1, MIN_RECLAIM_PAGES}

InitCswap ==
    /\ InitShrink
    /\ InitReclaim(CswapInterval)
    /\ QuietSystem
    /\ tasks = <<>>

\* other_free of the trigger and worker specifications: cutoff 1
PressureFreeSet == {1800}

NextCswap ==
    \/ NoneRunning /\ Enter(2, 1)
    \/ \E p \in Invokers, free \in PressureFreeSet, file \in FileSet,
          reserved \in ReservedSet : Sample(p, free, file, reserved)
    \/ \E p \in Invokers, lru \in LruSet : Lookup(p, lru)
    \/ \E p \in Invokers : KillStep(p)
    \/ \E p \in Invokers : ExitStep(p)
    \/ Tick
    \/ could_cswap
    \/ compcache_begin
    \/ \E nr \in ReclaimedSet : compcache_reclaimed(nr)
    \/ compcache_clear
    \/ compcache_set_state
    \/ compcache_schedule
    \/ need_soft_reclaim
    \/ \E v \in {0, 1} : set_soft_reclaim(v)
    \/ rtcc_daemon_store
    \/ hidden_cgroup_raise
    \/ \E kswapd \in {0, 1}, swap \in SwapSet, c \in CpuSet :
          SystemChanges(kswapd, swap, c)

SpecCswap == InitCswap /\ [][NextCswap]_vars

(* A specification for the worker next to the shrinker: the trigger finds   *)
(* an idle system, reclaim is requested, and invocations of the shrinker    *)
(* scan a process table while the worker runs.                              *)

IdleSystem ==
    /\ kswapd_thread_on = 0
    /\ nr_swap_pages = MIN_FREESWAP_PAGES
    /\ cpu = "idle"

InitWorker ==
    /\ InitShrink
    /\ InitReclaim(CswapInterval)
    /\ IdleSystem
    /\ tasks = <<Task(FALSE, TRUE, 6, 2)>>

NextWorker ==
    \/ \E p \in Invokers : NoneRunning /\ lmk_count = 0 /\ Enter(p, 1)
    \/ \E p \in Invokers, free \in PressureFreeSet, file \in FileSet,
          reserved \in ReservedSet : Sample(p, free, file, reserved)
    \/ \E p \in Invokers, lru \in LruSet : Lookup(p, lru)
    \/ \E p \in Invokers : ScanStep(p)
    \/ \E p \in Invokers : KillStep(p)
    \/ \E p \in Invokers : ExitStep(p)
    \/ Tick
    \/ could_cswap
    \/ compcache_begin
    \/ \E nr \in ReclaimedSet : compcache_reclaimed(nr)
    \/ compcache_clear
    \/ compcache_set_state
    \/ compcache_schedule
    \/ need_soft_reclaim

SpecWorker == InitWorker /\ [][NextWorker]_vars

(* The wake-up handshake: could_cswap statement by statement against the
   worker loop, on an idle system with reclaim requested again and again.
   The worker thread and the CPU that runs could_cswap are both scheduled
   fairly. *)

InitRace ==
    /\ InitShrink
    /\ InitReclaim(CswapInterval)
    /\ IdleSystem
    /\ tasks = <<>>

\* the steps of the worker thread
WorkerStep ==
    \/ compcache_begin
    \/ \E nr \in ReclaimedSet : compcache_reclaimed(nr)
    \/ compcache_clear
    \/ compcache_set_state
    \/ compcache_schedule

\* the steps of a could_cswap call
CswapStep ==
    \/ cswap_check
    \/ cswap_wake
    \/ cswap_set_running

NextRace ==
    \/ WorkerStep
    \/ CswapStep
    \/ need_soft_reclaim
    \/ Tick

SpecRaceFair ==
    InitRace /\ [][NextRace]_vars /\ WF_vars(WorkerStep) /\ WF_vars(CswapStep)

(* The report to the rtcc daemon on two CPUs: one could_cswap call taken
   statement by statement while calls on another CPU run in between, with
   the daemon registered and hidden_cgroup_counter raised from outside. *)

InitReport ==
    /\ InitShrink
    /\ InitReclaim(CswapInterval)
    /\ IdleSystem
    /\ tasks = <<>>

\* the steps of the call taken statement by statement
ReportStep ==
    \/ cswap_check_report
    \/ cswap_load_counter
    \/ cswap_store_counter

NextReport ==
    \/ ReportStep
    \/ CswapStep
    \/ could_cswap
    \/ WorkerStep
    \/ rtcc_daemon_store
    \/ hidden_cgroup_raise
    \/ need_soft_reclaim
    \/ Tick

SpecReport == InitReport /\ [][NextReport]_vars

(* The fork boost: forks, the fork_boost switch and lookups over a clock
   that runs past the end of a boost window (2 * HZ after a fork). *)

\* the last clock value of this specification
BoostHorizon == 2 * HZ + 2

\* jiffies advances, up to BoostHorizon
TickBoost ==
    /\ jiffies < BoostHorizon
    /\ jiffies' = jiffies + 1
    /\ UNCHANGED <<tasks, tablevars, cswapvars, minfree_tmp, lowmem_fork_boost_timeout,
                   lowmem_deathpending_timeout, lmk_count, lmk_running,
                   scan_mutex, loc>>

\* readings that separate the boosted thresholds from the plain ones:
\* 20000 is below 16384 + 5120 and above 16384
BoostFreeSet == {1800, 20000}

BoostFileSet == {500, 20000}

InitBoost ==
    /\ InitCommon
    /\ tasks = <<>>

NextBoost ==
    \/ NoneRunning /\ Enter(2, 1)
    \/ \E p \in Invokers :
          \/ \E free \in BoostFreeSet, file \in BoostFileSet : Sample(p, free, file, 0)
          \/ \E lru \in LruSet : Lookup(p, lru)
          \/ KillStep(p)
          \/ ExitStep(p)
    \/ TickBoost
    \/ task_fork_notify_func
    \/ \E v \in {0, 1} : param_set_fork_boost(v)

SpecBoost == InitBoost /\ [][NextBoost]_vars

(* The scratch table under concurrency: kswapd and a direct reclaimer call
   lowmem_shrink with zero and nonzero requests while a fork boost is
   active, the fill loop of lines 271-272 taken entry by entry. *)

InitScratch ==
    /\ InitCommon
    /\ tasks = <<>>

NextScratch ==
    \/ \E p \in Invokers, n \in {0, 1} : Enter(p, n)
    \/ \E p \in Invokers :
          \/ ContendedReturn(p)
          \/ Sample(p, 1800, 500, 0)
          \/ minfree_tmp_store(p)
          \/ \E lru \in LruSet : Lookup(p, lru)
          \/ KillStep(p)
          \/ ExitStep(p)
    \/ TickBoost
    \/ task_fork_notify_func
    \/ \E v \in {0, 1} : param_set_fork_boost(v)

SpecScratch == InitScratch /\ [][NextScratch]_vars


\* invoker p takes a step of lowmem_shrink
Steps(p) == loc'[p] # loc[p]

\* invoker p is between a successful trylock and its unlock
Holding(p) ==
    /\ loc[p].nr_to_scan > 0
    /\ loc[p].pc \in {"sample", "lookup", "scan", "abort_sleep", "kill", "exit"}

\* C1: at most one invocation with nonzero requested reclaim is between its
\* successful mutex_trylock(&scan_mutex) and its mutex_unlock at any time.
C1_MutualExclusion ==
    \A p \in Invokers, q \in Invokers : Holding(p) /\ Holding(q) => p = q

\* C1 witness: the direct reclaimer is in the kill loop while kswapd, having
\* called with nonzero reclaim, was turned away by the trylock.
C1_Witness ==
    /\ Holding(2) /\ loc[2].pc = "kill"
    /\ loc[1].pc = "contended" /\ loc[1].nr_to_scan > 0

\* C2: an invocation with nonzero requested reclaim that finds scan_mutex
\* held does not enter the scan: it returns 0 (kswapd after its sleep, which
\* does not depend on the mutex being released), and its steps leave the
\* process table, lowmem_deathpending_timeout, lmk_count, lmk_running and the
\* mutex as they were.
C2_ContentionReturnsZero ==
    [][\A p \in Invokers :
          /\ ( /\ loc[p].pc \in {"idle", "done"}
               /\ Steps(p)
               /\ scan_mutex # NULL
               /\ ~(loc'[p].pc = "sample" /\ loc'[p].nr_to_scan = 0) )
             => /\ loc'[p].pc \in {"contended", "done"}
                /\ loc'[p].pc = "done" => loc'[p].ret = 0
                /\ loc'[p].pc = "contended" <=> p = 1
                /\ UNCHANGED <<tasks, lowmem_deathpending_timeout, lmk_count,
                               lmk_running, scan_mutex>>
          /\ (loc[p].pc = "contended" /\ Steps(p))
             => /\ loc'[p].pc = "done"
                /\ loc'[p].ret = 0
                /\ UNCHANGED <<tasks, lowmem_deathpending_timeout, lmk_count,
                               lmk_running, scan_mutex>>
      ]_vars
    /\ [](\A p \in Invokers :
             loc[p].pc = "contended" /\ scan_mutex # NULL
                 => ENABLED ContendedReturn(p))

\* C2 witness: kswapd was turned away and sleeps while the direct reclaimer
\* still holds the mutex with lmk_running set.
C2_Witness ==
    /\ loc[1].pc = "contended"
    /\ scan_mutex = 2
    /\ lmk_running = 1

\* the claims' reading of the lookup, in plain integer arithmetic
BoostActive ==
    lowmem_fork_boost # 0 /\ jiffies <= lowmem_fork_boost_timeout

Threshold(i) ==
    lowmem_minfree[i] + (IF BoostActive THEN lowmem_fork_boost_minfree[i] ELSE 0)

EffectiveEntries ==
    {i \in Idx : i < lowmem_adj_size /\ i < lowmem_minfree_size}

BothBelow(p, i) ==
    /\ loc[p].other_free - loc[p].reserved_free < Threshold(i)
    /\ loc[p].other_file < Threshold(i)

BothBelowOrAt(p, i) ==
    /\ loc[p].other_free - loc[p].reserved_free <= Threshold(i)
    /\ loc[p].other_file <= Threshold(i)

BothAt(p, i) ==
    /\ loc[p].other_free - loc[p].reserved_free = Threshold(i)
    /\ loc[p].other_file = Threshold(i)

FirstBothBelow(p) ==
    CHOOSE i \in EffectiveEntries :
        BothBelow(p, i) /\ \A j \in EffectiveEntries : j < i => ~BothBelow(p, j)

\* invoker p, called with nonzero reclaim, performs the lookup in this step
LooksUp(p) ==
    loc[p].pc = "lookup" /\ loc[p].nr_to_scan > 0 /\ Steps(p)

\* the lookup step ends in "no pressure": the invocation returns at line 307
NoPressure(p) == loc'[p].pc = "done"

\* the lookup step selected entry i and its cutoff
Selects(p, i) ==
    /\ loc'[p].pc # "done"
    /\ loc'[p].entry = i
    /\ loc'[p].min_score_adj = lowmem_adj[i]

\* C3: the lookup selects the smallest index below the effective length
\* whose threshold (minfree[i], plus boost[i] while the boost is active) is
\* above both free_pages - reserved_free and file_pages, compared as
\* integers, and yields adj[i]; with no such index the result is "no
\* pressure".
C3_FirstEntryBothBelow ==
    [][\A p \in Invokers :
          LooksUp(p) =>
              IF \E i \in EffectiveEntries : BothBelow(p, i)
              THEN Selects(p, FirstBothBelow(p))
              ELSE NoPressure(p)
      ]_vars

\* C4 as claimed: readings exactly at threshold[i], with no earlier entry
\* crossed, make the lookup return adj[i].
C4_EqualCountsAsCrossed ==
    [][\A p \in Invokers : \A i \in EffectiveEntries :
          ( /\ LooksUp(p)
            /\ BothAt(p, i)
            /\ \A j \in EffectiveEntries : j < i => ~BothBelowOrAt(p, j) )
          => Selects(p, i)
      ]_vars

\* C4 as amended: the comparison is strict.  With both readings exactly at
\* threshold[i], entry i is never the one selected: the result is the cutoff
\* of the first entry whose threshold is strictly above both readings, or
\* "no pressure" when there is none.
C4_EqualIsNotCrossed ==
    [][\A p \in Invokers : \A i \in EffectiveEntries :
          (LooksUp(p) /\ BothAt(p, i))
          => /\ ~Selects(p, i)
             /\ IF \E j \in EffectiveEntries : BothBelow(p, j)
                THEN Selects(p, FirstBothBelow(p))
                ELSE NoPressure(p)
      ]_vars

\* C4 witness: both readings sit exactly at the threshold of entry 0 and the
\* lookup went on to a later entry.
C4_Witness ==
    \E p \in Invokers :
        /\ loc[p].pc = "kill"
        /\ lowmem_fork_boost = 0
        /\ loc[p].other_free - loc[p].reserved_free = lowmem_minfree[0]
        /\ loc[p].other_file = lowmem_minfree[0]
        /\ loc[p].entry > 0

\* the tables as initialised, without boost
DefaultSetup ==
    /\ lowmem_adj = DefaultAdj /\ lowmem_adj_size = 4
    /\ lowmem_minfree = DefaultMinfree /\ lowmem_minfree_size = 4
    /\ lowmem_fork_boost = 0

ScenarioReadings(p) ==
    /\ loc[p].other_free = 1800
    /\ loc[p].other_file = 500
    /\ loc[p].reserved_free = 0

\* C5 as claimed: default tables, no boost, reserved_free 0, free_pages 1800
\* and file_pages 500 give cutoff 0, the first entry.
C5_ScenarioGivesCutoff0 ==
    [][\A p \in Invokers :
          (LooksUp(p) /\ DefaultSetup /\ ScenarioReadings(p))
          => Selects(p, 0) /\ loc'[p].min_score_adj = 0
      ]_vars

\* C5 as amended: in that scenario the first entry is not crossed (1800 is
\* not below 1536) and the lookup returns cutoff 1, the second entry.
C5_ScenarioGivesCutoff1 ==
    [][\A p \in Invokers :
          (LooksUp(p) /\ DefaultSetup /\ ScenarioReadings(p))
          => Selects(p, 1) /\ loc'[p].min_score_adj = 1
      ]_vars

\* C5 witness: the scenario's lookup has run and holds cutoff 1.
C5_Witness ==
    \E p \in Invokers :
        /\ loc[p].pc = "kill"
        /\ DefaultSetup
        /\ ScenarioReadings(p)
        /\ loc[p].min_score_adj = 1

\* the tasks invocation p has examined so far in this pass
SeenTasks(p) == {loc[p].seen[k].task : k \in 1 .. Len(loc[p].seen)}

\* what invocation p read of task t when it examined it
SeenRec(p, t) ==
    loc[p].seen[CHOOSE k \in 1 .. Len(loc[p].seen) : loc[p].seen[k].task = t]

\* an examined task met all four conditions of eligibility
Qualifies(p, r) ==
    /\ ~r.kthread
    /\ r.mm
    /\ r.oom_score_adj >= loc[p].min_score_adj
    /\ r.rss > 0

\* C6: every task in the pool, and every task the pass has signalled, was
\* examined in this pass and was then no kernel thread, had an mm, had
\* oom_score_adj >= the pass's cutoff and a resident size > 0.
C6_OnlyEligibleSelected ==
    \A p \in Invokers :
        /\ \A i \in Slots :
              loc[p].selected[i] # NULL
                  => /\ loc[p].selected[i] \in SeenTasks(p)
                     /\ Qualifies(p, SeenRec(p, loc[p].selected[i]))
        /\ \A k \in 1 .. Len(loc[p].killed) :
              /\ loc[p].killed[k] \in SeenTasks(p)
              /\ Qualifies(p, SeenRec(p, loc[p].killed[k]))

\* C6 witness: a pass has signalled a task and had examined, and skipped, a
\* task that failed one of the conditions.
C6_Witness ==
    \E p \in Invokers :
        /\ Len(loc[p].killed) > 0
        /\ \E t \in SeenTasks(p) :
              /\ ~Qualifies(p, SeenRec(p, t))
              /\ \A i \in Slots : loc[p].selected[i] # t

\* (oom_score_adj, size) pairs, ranked priority first, then size
RanksAtLeast(a, b) == a[1] > b[1] \/ (a[1] = b[1] /\ a[2] >= b[2])

RECURSIVE InsertRanked(_, _)
InsertRanked(x, sorted) ==
    IF sorted = <<>> THEN <<x>>
    ELSE IF RanksAtLeast(x, Head(sorted)) THEN <<x>> \o sorted
    ELSE <<Head(sorted)>> \o InsertRanked(x, Tail(sorted))

RECURSIVE SortRanked(_)
SortRanked(seq) ==
    IF seq = <<>> THEN <<>>
    ELSE InsertRanked(Head(seq), SortRanked(Tail(seq)))

TopRanked(seq, k) ==
    SubSeq(SortRanked(seq), 1, IF Len(seq) < k THEN Len(seq) ELSE k)

RECURSIVE PairsOf(_, _)
PairsOf(p, seen) ==
    IF seen = <<>> THEN <<>>
    ELSE (IF Qualifies(p, Head(seen))
          THEN <<<<Head(seen).oom_score_adj, Head(seen).rss>>>>
          ELSE <<>>) \o PairsOf(p, Tail(seen))

\* the eligible candidates of the pass of p, in arrival order
Arrivals(p) == PairsOf(p, loc[p].seen)

RECURSIVE SlotPairs(_, _)
SlotPairs(p, i) ==
    IF i >= LOWMEM_DEATHPENDING_DEPTH THEN <<>>
    ELSE (IF loc[p].selected[i] # NULL
          THEN <<<<loc[p].selected_oom_score_adj[i],
                   loc[p].selected_tasksize[i]>>>>
          ELSE <<>>) \o SlotPairs(p, i + 1)

\* C7: after the scan loop the pool holds min(N, 3) of the N eligible
\* candidates, and their (priority, size) pairs are, as a multiset, the top
\* min(N, 3) of all candidates by priority descending, then size descending;
\* the pool depends on the arrivals only through that multiset.  Each slot
\* holds a distinct task with the pair read of it.
C7_PoolIsTopThree ==
    \A p \in Invokers :
        loc[p].pc \in {"kill", "exit"}
            => /\ SortRanked(SlotPairs(p, 0))
                      = TopRanked(Arrivals(p), LOWMEM_DEATHPENDING_DEPTH)
               /\ \A i \in Slots :
                     loc[p].selected[i] # NULL
                         => /\ loc[p].selected[i] \in SeenTasks(p)
                            /\ SeenRec(p, loc[p].selected[i]).rss
                                   = loc[p].selected_tasksize[i]
                            /\ SeenRec(p, loc[p].selected[i]).oom_score_adj
                                   = loc[p].selected_oom_score_adj[i]
                            /\ \A j \in Slots :
                                  loc[p].selected[j] = loc[p].selected[i] => j = i

\* C7 witness: the arrivals (5,100), (8,50), (8,200), (3,900) have been
\* scanned and the pool holds (8,200), (8,50), (5,100).
C7_Witness ==
    \E p \in Invokers :
        /\ loc[p].pc = "kill"
        /\ Arrivals(p) = << <<5, 100>>, <<8, 50>>, <<8, 200>>, <<3, 900>> >>
        /\ SortRanked(SlotPairs(p, 0)) = << <<8, 200>>, <<8, 50>>, <<5, 100>> >>

\* the task the scan of p is about to examine is a user task in the process
\* table that carries TIF_MEMDIE, at a time <= the death-pending deadline
MeetsPendingVictim(p) ==
    /\ loc[p].pc = "scan"
    /\ loc[p].nr_to_scan > 0
    /\ loc[p].min_score_adj <= OOM_SCORE_ADJ_MAX
    /\ loc[p].tsk \in DOMAIN tasks
    /\ tasks[loc[p].tsk].present
    /\ ~tasks[loc[p].tsk].kthread
    /\ tasks[loc[p].tsk].memdie
    /\ jiffies <= lowmem_deathpending_timeout

\* C8: a scan (nonzero reclaim, threshold crossed) that meets, at a time <=
\* the deadline, a user task still carrying TIF_MEMDIE has signalled nothing
\* and signals nothing, whatever its pool holds; it leaves the deadline, the
\* kill counter and every task flag as they were, clears lmk_running,
\* releases scan_mutex (kswapd after its sleep) and returns 0.
C8_PendingVictimAbortsPass ==
    [][\A p \in Invokers :
          /\ (MeetsPendingVictim(p) /\ Steps(p))
             => /\ loc[p].killed = <<>>
                /\ UNCHANGED <<tasks, lowmem_deathpending_timeout, lmk_count>>
                /\ lmk_running' = 0
                /\ loc'[p].pc \in {"abort_sleep", "done"}
                /\ loc'[p].pc = "abort_sleep"
                       => scan_mutex' = scan_mutex /\ loc'[p].killed = <<>>
                /\ loc'[p].pc = "done"
                       => scan_mutex' = NULL /\ loc'[p].ret = 0
          /\ (loc[p].pc = "abort_sleep" /\ Steps(p))
             => /\ loc'[p].pc = "done"
                /\ loc'[p].ret = 0
                /\ scan_mutex' = NULL
                /\ UNCHANGED <<tasks, lowmem_deathpending_timeout, lmk_count,
                               lmk_running>>
      ]_vars

\* C8 witness: right after a kill (no tick since the deadline was set) a
\* second pass put a candidate into its pool, then met the still present
\* victim and aborted.
C8_Witness ==
    \E p \in Invokers :
        /\ loc[p].pc = "abort_sleep"
        /\ loc[p].all_selected_oom > 0
        /\ lmk_count > 0
        /\ lowmem_deathpending_timeout = jiffies + HZ

\* C9 as claimed: a scan invoked at a time <= the deadline recorded by an
\* earlier scan signals no process.
C9_NoKillInsideWindow ==
    \A p \in Invokers : loc[p].inwindow => loc[p].killed = <<>>

\* C9 as amended: a pass signals no process once it has met, at a time <=
\* the deadline, a user task carrying TIF_MEMDIE; a pass that met none (the
\* earlier victims have left the process table) does signal, although it was
\* invoked inside the unexpired window, and sets the deadline anew.
C9_KillOnlyWithoutPendingVictim ==
    \A p \in Invokers :
        Len(loc[p].killed) > 0
            => \A k \in 1 .. Len(loc[p].seen) :
                   ~( /\ ~loc[p].seen[k].kthread
                      /\ loc[p].seen[k].memdie
                      /\ loc[p].seen[k].inwindow )

\* C9 witness: a pass invoked inside the unexpired window of an earlier kill
\* has signalled a process at a time <= that earlier deadline, and so moved
\* the deadline while it was unexpired.
C9_Witness ==
    \E p \in Invokers :
        /\ loc[p].inwindow
        /\ loc[p].early
        /\ Len(loc[p].killed) > 0
        /\ loc[p].pc = "exit"
        /\ lmk_count > Len(loc[p].killed)

RECURSIVE SeenRssSum(_, _)
SeenRssSum(p, ts) ==
    IF ts = <<>> THEN 0
    ELSE SeenRec(p, Head(ts)).rss + SeenRssSum(p, Tail(ts))

OccupiedSlots(p) == {i \in Slots : loc[p].selected[i] # NULL}

\* C10: each iteration of the kill loop on an occupied slot signals that
\* task, sets its TIF_MEMDIE and sets the deadline to jiffies + HZ; an empty
\* slot signals nothing.  The pass then returns the LRU total it sampled
\* minus the resident sizes of exactly the tasks it signalled, one per
\* occupied slot.
C10_KillPath ==
    [][\A p \in Invokers :
          /\ (loc[p].pc = "kill" /\ Steps(p))
             => LET i == loc[p].i
                    victim == loc[p].selected[i]
                IN  IF victim # NULL
                    THEN /\ loc'[p].killed = Append(loc[p].killed, victim)
                         /\ tasks'[victim].memdie
                         /\ lowmem_deathpending_timeout' = jiffies + HZ
                         /\ lmk_count' = lmk_count + 1
                    ELSE /\ loc'[p].killed = loc[p].killed
                         /\ UNCHANGED <<tasks, lowmem_deathpending_timeout,
                                        lmk_count>>
          /\ (loc[p].pc = "exit" /\ Steps(p))
             => /\ loc'[p].pc = "done"
                /\ Len(loc[p].killed) = Cardinality(OccupiedSlots(p))
                /\ \A i \in OccupiedSlots(p) :
                      \E k \in 1 .. Len(loc[p].killed) :
                          loc[p].killed[k] = loc[p].selected[i]
                /\ loc'[p].ret = loc[p].lru - SeenRssSum(p, loc[p].killed)
      ]_vars

\* C10 witness: a pass has signalled two victims and is about to return.
C10_Witness ==
    \E p \in Invokers :
        /\ loc[p].pc = "exit"
        /\ Len(loc[p].killed) >= 2
        /\ loc[p].rem < loc[p].lru

\* the first n entries of the table are in ascending order
Ascending(arr, n) == \A k \in Idx : k + 1 < n => arr[k] <= arr[k + 1]

\* the adj and minfree lists are of one length and both ascending
WellFormedTables ==
    /\ lowmem_adj_size = lowmem_minfree_size
    /\ Ascending(lowmem_adj, lowmem_adj_size)
    /\ Ascending(lowmem_minfree, lowmem_minfree_size)

UnsortedWriteStored ==
    /\ param_set_minfree(<<3000, 1000>>)
    /\ lowmem_minfree'[0] = 3000
    /\ lowmem_minfree'[1] = 1000
    /\ lowmem_minfree_size' = 2

\* a write to adj, stored, of a list that is not as long as the minfree list
MismatchedWriteStored ==
    \E vals \in {<<6>>, <<0, 6>>} :
        /\ Len(vals) # lowmem_minfree_size
        /\ param_set_adj(vals)
        /\ lowmem_adj_size' = Len(vals)
        /\ lowmem_adj'[0] = vals[1]
        /\ lowmem_adj_size' # lowmem_minfree_size'

InPass == kcompcached.pc = "soft_reclaim" /\ kcompcached_running = 1

\* a step in which could_cswap wakes the worker
Wakes == kcompcached_running = 0 /\ kcompcached_running' = 1

PassStarts == kcompcached.pc = "top" /\ kcompcached'.pc = "soft_reclaim"

\* after a pass the worker clears kcompcached_running, marks itself
\* TASK_INTERRUPTIBLE and leaves schedule() only once it has been woken
SleepsAfterPass ==
    /\ kcompcached.pc = "soft_reclaim" => kcompcached'.pc \in {"soft_reclaim", "clear"}
    /\ kcompcached.pc = "clear" /\ kcompcached'.pc # "clear"
          => kcompcached'.pc = "set_state" /\ kcompcached_running' = 0
    /\ kcompcached.pc = "set_state" /\ kcompcached'.pc # "set_state"
          => kcompcached'.pc = "schedule" /\ kcompcached'.state = "TASK_INTERRUPTIBLE"
    /\ kcompcached.pc = "schedule" /\ kcompcached'.pc # "schedule"
          => /\ kcompcached'.pc = "top"
             /\ kcompcached.woken
             /\ kcompcached.state = "TASK_RUNNING"

\* C20 as claimed: every reclaim pass of the worker begins after a wake
\* issued since its previous pass, and after each pass the worker clears
\* kcompcached_running and sleeps until it is woken again.
C20_EveryPassFollowsWake ==
    [][(PassStarts => kcompcached.woken) /\ SleepsAfterPass]_vars

\* C20 as amended: the first pass runs as soon as the thread is created,
\* with no wake; every later pass begins after a wake issued since the
\* worker last went to sleep, and after each pass the worker clears
\* kcompcached_running and sleeps until it is woken again.
C20_LaterPassFollowsWake ==
    [][(PassStarts /\ kcompcached.ran => kcompcached.woken) /\ SleepsAfterPass]_vars

\* C20 witness: the worker is inside its second or later pass, begun after
\* a wake by the idle trigger.
C20_Witness ==
    /\ kcompcached.pc = "soft_reclaim"
    /\ kcompcached.ran
    /\ kcompcached.woken
    /\ kcompcached_running = 1

\* the threshold table the claim expects the lookup to use
ClaimedThresholds ==
    [k \in Idx |-> IF BoostActive /\ k < lowmem_minfree_size
                   THEN lowmem_minfree[k] + lowmem_fork_boost_minfree[k]
                   ELSE lowmem_minfree[k]]

\* C14: while the fork boost is enabled and the time is at most the last
\* fork plus 2 * HZ, a lookup compares against minfree[i] + boost[i], which
\* is at least minfree[i], for every effective entry; past the window or
\* with the boost disabled it compares against exactly minfree[i]; every
\* fork restarts the window at the current time.
C14_BoostWindow ==
    [][/\ lowmem_fork_boost_timeout' # lowmem_fork_boost_timeout
             => lowmem_fork_boost_timeout' = jiffies + 2 * HZ
       /\ \A p \in Invokers : LooksUp(p) =>
             LET size == ArraySize(lowmem_adj_size, lowmem_minfree_size)
                 i == LookupIdx(0, size,
                                loc[p].other_free - loc[p].reserved_free,
                                loc[p].other_file, ClaimedThresholds)
             IN  /\ \A k \in EffectiveEntries :
                       /\ ClaimedThresholds[k] >= lowmem_minfree[k]
                       /\ BoostActive => minfree_tmp'[k] = ClaimedThresholds[k]
                 /\ ~BoostActive => minfree_tmp' = minfree_tmp
                 /\ IF i < size
                    THEN loc'[p].pc # "done" /\ loc'[p].entry = i
                    ELSE loc'[p].pc = "done"
      ]_vars

\* C14 witness: inside the window of a fork, with the boost enabled, a
\* lookup with free = file = 20000 pages has selected entry 3, whose plain
\* threshold 16384 these readings do not cross.
C14_Witness ==
    /\ lowmem_fork_boost # 0
    /\ lowmem_fork_boost_timeout >= 2 * HZ + 1
    /\ jiffies <= lowmem_fork_boost_timeout
    /\ \E p \in Invokers :
          /\ loc[p].pc = "kill"
          /\ loc[p].other_free = 20000
          /\ loc[p].other_file = 20000
          /\ loc[p].entry = 3
          /\ minfree_tmp[3] = 16384 + 5120

\* the number of processes invoker p signals in this step
SignalledNow(p) == Len(loc'[p].killed) - Len(loc[p].killed)

\* C15: lmk_count never decreases; every step of an invocation raises it
\* by exactly the number of processes the step signals, so an invocation
\* raises it by the number it signalled; an invocation that returns on the
\* contention, zero-request, no-pressure or abort path, or finds no
\* victim, has signalled nobody and leaves it as it was.
C15_CountsKills ==
    [][/\ lmk_count' >= lmk_count
       /\ (\A p \in Invokers : ~Steps(p)) => lmk_count' = lmk_count
       /\ \A p \in Invokers : Steps(p) =>
             /\ loc'[p].pc # "done" => lmk_count' - lmk_count = SignalledNow(p)
             /\ loc'[p].pc = "done" => lmk_count' = lmk_count
             /\ loc'[p].pc = "done" /\ loc[p].pc # "exit" => loc[p].killed = <<>>
             /\ loc[p].pc # "kill" => lmk_count' = lmk_count
             /\ loc[p].pc = "kill" /\ loc[p].selected[loc[p].i] = NULL
                   => lmk_count' = lmk_count
      ]_vars

\* C15 witness: an invocation that signalled two processes is about to
\* return and lmk_count has grown by two since the module was loaded.
C15_Witness ==
    \E p \in Invokers :
        /\ loc[p].pc = "exit"
        /\ Len(loc[p].killed) = 2
        /\ lmk_count = 2

\* invoker p, past a crossed threshold and a completed scan that put no
\* process in the pool, returns in this step
NoEligibleReturn(p) ==
    /\ loc[p].pc = "exit"
    /\ Steps(p)
    /\ loc[p].killed = <<>>
    /\ \A k \in Slots : loc[p].selected[k] = NULL

\* C16 as claimed: when a threshold is crossed and no process is eligible,
\* the invocation returns zero.
C16_NoVictimReturnsZero ==
    [][\A p \in Invokers : NoEligibleReturn(p) =>
          loc'[p].pc = "done" /\ loc'[p].ret = 0]_vars

\* C16 as amended: when a threshold is crossed and no process is eligible,
\* the invocation returns normally with the LRU page total it sampled,
\* from which nothing was subtracted; the value is the shrinker's remaining
\* count, not an error code, and is zero only when the LRU lists are empty.
C16_NoVictimReturnsLruTotal ==
    [][\A p \in Invokers : NoEligibleReturn(p) =>
          /\ loc'[p].pc = "done"
          /\ loc'[p].ret = loc[p].lru
          /\ loc'[p].ret >= 0
          /\ scan_mutex' = NULL
          /\ lmk_running' = 0
          /\ UNCHANGED <<tasks, lmk_count, lowmem_deathpending_timeout>>
      ]_vars

\* C16 witness: a scan with a crossed threshold has examined every process
\* of a non-empty table, selected none, and is about to return its LRU
\* total of 10 pages.
C16_Witness ==
    \E p \in Invokers :
        /\ loc[p].pc = "exit"
        /\ Len(loc[p].seen) = NFilter
        /\ loc[p].killed = <<>>
        /\ \A k \in Slots : loc[p].selected[k] = NULL
        /\ loc[p].rem = 10
        /\ loc[p].lru = 10

\* the processes in the pool of invoker p
Selected(p) == {loc[p].selected[k] : k \in Slots} \ {NULL}

\* the processes invoker p has signalled
Signalled(p) == {loc[p].killed[k] : k \in 1 .. Len(loc[p].killed)}

\* C17: an invocation that acquired scan_mutex owns it until it returns and
\* releases it in the step in which it returns, on every exit path, so
\* exactly once; on the kill path it releases only after the kill loop has
\* signalled every process of the pool and recorded the deadline; an
\* invocation that did not acquire it (zero request, failed trylock) never
\* changes it.
C17_LockReleasedOnce ==
    [][\A p \in Invokers :
          /\ Holding(p) => scan_mutex = p
          /\ scan_mutex = p /\ scan_mutex' # p
                => Steps(p) /\ scan_mutex' = NULL /\ loc'[p].pc = "done"
          /\ Holding(p) /\ Steps(p) /\ loc'[p].pc = "done" => scan_mutex' = NULL
          /\ Holding(p) /\ Steps(p) /\ loc'[p].pc # "done" => scan_mutex' = p
          /\ scan_mutex = p /\ scan_mutex' = NULL /\ loc[p].pc \in {"kill", "exit"}
                => /\ loc[p].pc = "exit"
                   /\ loc[p].i = LOWMEM_DEATHPENDING_DEPTH
                   /\ Signalled(p) = Selected(p)
                   /\ \A t \in Selected(p) : tasks[t].memdie
                   /\ Selected(p) # {} =>
                         /\ lowmem_deathpending_timeout >= HZ
                         /\ lowmem_deathpending_timeout <= jiffies + HZ
          /\ ~Holding(p) /\ Steps(p) /\ loc[p].pc \notin {"idle", "done"}
                => scan_mutex' = scan_mutex
          /\ loc[p].pc \in {"idle", "done"} /\ Steps(p)
                => /\ scan_mutex' \in {scan_mutex, p}
                   /\ scan_mutex' # scan_mutex
                         => scan_mutex = NULL /\ loc'[p].nr_to_scan > 0
      ]_vars

\* C17 witness: the direct reclaimer has signalled both processes of its
\* pool, recorded the deadline and still holds scan_mutex just before it
\* returns, while kswapd, turned away by the trylock, does not hold it.
C17_Witness ==
    /\ scan_mutex = 2
    /\ loc[2].pc = "exit"
    /\ Len(loc[2].killed) = 2
    /\ Signalled(2) = Selected(2)
    /\ lowmem_deathpending_timeout >= HZ
    /\ loc[1].pc = "contended"

\* the step of invoker p signals nobody and leaves the flags, the deadline
\* and the kill counter alone
Harmless(p) ==
    /\ loc'[p].killed = <<>>
    /\ UNCHANGED <<tasks, lowmem_deathpending_timeout, lmk_count>>

\* none of the processes invoker p will have examined after this step is
\* eligible
NoneEligible(p) ==
    \A k \in 1 .. Len(loc'[p].seen) : ~Qualifies(p, loc'[p].seen[k])

\* C18: an invocation with zero requested reclaim, one whose readings cross
\* no threshold, and one that crosses a threshold but examines no eligible
\* process signal nobody, set no TIF_MEMDIE flag and leave
\* lowmem_deathpending_timeout and lmk_count unchanged, in every step.
C18_NoVictimNoEffect ==
    [][\A p \in Invokers : Steps(p) =>
          /\ loc[p].pc \in {"idle", "done"} => Harmless(p)
          /\ loc[p].nr_to_scan = 0 /\ loc[p].pc \notin {"idle", "done"}
                => Harmless(p) /\ loc'[p].pc \in {"lookup", "done"}
          /\ loc[p].pc = "lookup" /\ (\A i \in EffectiveEntries : ~BothBelow(p, i))
                => Harmless(p) /\ loc'[p].pc = "done"
          /\ loc[p].pc \in {"scan", "kill", "exit"} /\ NoneEligible(p)
                => Harmless(p)
      ]_vars

\* C18 witness: a scan with a crossed threshold has examined the whole
\* table, in which a user process with memory is below the cutoff, found
\* nobody eligible and finished its kill loop: no process carries
\* TIF_MEMDIE and lmk_count is still zero.
C18_Witness ==
    \E p \in Invokers :
        /\ loc[p].pc = "exit"
        /\ loc[p].nr_to_scan > 0
        /\ loc[p].i = LOWMEM_DEATHPENDING_DEPTH
        /\ Len(loc[p].seen) = NFilter
        /\ \A k \in 1 .. NFilter : ~Qualifies(p, loc[p].seen[k])
        /\ \E k \in 1 .. NFilter :
              LET r == loc[p].seen[k]
              IN  ~r.kthread /\ r.mm /\ r.rss > 0
        /\ \A t \in DOMAIN tasks : ~tasks[t].memdie
        /\ lmk_count = 0

\* the occupied slots of the pool of invoker p
Occupied(p) == {k \in Slots : loc[p].selected[k] # NULL}

\* C19: the pool of a scan has LOWMEM_DEATHPENDING_DEPTH = 3 slots and
\* never holds more than 3 entries: all_selected_oom counts the occupied
\* slots and stays at most 3, the slot written next is one of the 3, no
\* process occupies two slots, and a pass signals at most 3 processes,
\* each of them once.
C19_PoolAtMostThree ==
    \A p \in Invokers :
        /\ DOMAIN loc[p].selected = 0 .. 2
        /\ loc[p].max_selected_oom_idx \in 0 .. 2
        /\ loc[p].all_selected_oom <= 3
        /\ loc[p].all_selected_oom = Cardinality(Occupied(p))
        /\ Cardinality(Selected(p)) = Cardinality(Occupied(p))
        /\ Len(loc[p].killed) <= 3
        /\ Cardinality(Signalled(p)) = Len(loc[p].killed)
        /\ loc[p].pc \in {"kill", "exit"} => Signalled(p) \subseteq Selected(p)

\* C19 witness: a scan examined four eligible processes, kept three of
\* them in its full pool and has signalled exactly those three.
C19_Witness ==
    \E p \in Invokers :
        /\ loc[p].pc = "exit"
        /\ Len(loc[p].seen) = 4
        /\ \A k \in 1 .. 4 : Qualifies(p, loc[p].seen[k])
        /\ loc[p].all_selected_oom = 3
        /\ Len(loc[p].killed) = 3

\* soft_reclaim returns to do_compcache in this step
PassEnds == kcompcached.pc = "soft_reclaim" /\ kcompcached'.pc = "clear"

\* a step of the worker thread
WorkerSteps == kcompcached'.pc # kcompcached.pc

\* C21: when soft_reclaim returns fewer than minimun_reclaim_pages pages
\* the worker sets need_to_reclaim to 0; when it returns at least that many
\* the worker leaves need_to_reclaim as it was; no other step of the worker
\* changes need_to_reclaim.
C21_FewPagesCancelRequest ==
    [][/\ PassEnds /\ kcompcached'.nr < MIN_RECLAIM_PAGES => need_to_reclaim' = 0
       /\ PassEnds /\ kcompcached'.nr >= MIN_RECLAIM_PAGES
             => need_to_reclaim' = need_to_reclaim
       /\ WorkerSteps /\ ~PassEnds => need_to_reclaim' = need_to_reclaim
      ]_vars

\* C21 witness: a pass started by a wake, hence with need_to_reclaim = 1,
\* has reclaimed one page fewer than the minimum and need_to_reclaim is 0.
C21_Witness ==
    /\ kcompcached.pc = "clear"
    /\ kcompcached.woken
    /\ kcompcached.nr = MIN_RECLAIM_PAGES - 1
    /\ need_to_reclaim = 0

\* the scan of invoker p is bounded: the lookup stops within array_size =
\* min(6, adj length, minfree length) iterations, the scan position never
\* passes the end of the table and no process was examined twice
ScanBounded(p) ==
    /\ loc[p].array_size <= TABLE_SLOTS
    /\ loc[p].array_size <= lowmem_adj_size
    /\ loc[p].array_size <= lowmem_minfree_size
    /\ loc[p].entry <= loc[p].array_size
    /\ loc[p].tsk <= Len(tasks) + 1
    /\ Len(loc[p].seen) <= Len(tasks)
    /\ Cardinality(SeenTasks(p)) = Len(loc[p].seen)

\* every iteration of the scan loop moves on to the next process or ends
\* the scan
ScanProgress(p) ==
    loc[p].pc = "scan" /\ Steps(p)
        => \/ loc'[p].pc = "scan" /\ loc'[p].tsk = loc[p].tsk + 1
           \/ loc'[p].pc \in {"kill", "abort_sleep", "done"}

\* C22 as claimed, its safety part: the scan is bounded and an invocation
\* that holds scan_mutex never waits.
C22_BoundedScanNeverWaits ==
    \A p \in Invokers :
        /\ ScanBounded(p)
        /\ Holding(p) => loc[p].pc # "abort_sleep"

\* C22 as amended: the scan is bounded, every iteration moves on, and every
\* invocation that acquired scan_mutex eventually releases it; the one wait
\* under the lock is the timed sleep of the hysteresis abort, after which
\* the invocation unlocks and returns.
C22_ScanTerminates ==
    /\ [](\A p \in Invokers : ScanBounded(p))
    /\ [][\A p \in Invokers :
             /\ ScanProgress(p)
             /\ loc[p].pc = "abort_sleep" /\ Steps(p)
                   => loc'[p].pc = "done" /\ scan_mutex' = NULL
       ]_vars
    /\ \A p \in Invokers : (scan_mutex = p) ~> (scan_mutex # p)

\* C22 witness: kswapd met a pending victim, left the scan loop and sleeps
\* with scan_mutex still held.
C22_Witness ==
    /\ scan_mutex = 1
    /\ loc[1].pc = "abort_sleep"
    /\ Len(loc[1].seen) >= 1
    /\ lmk_running = 0

\* C24: whenever an invocation of lowmem_shrink has returned, every
\* rcu_read_lock it executed has been matched by an rcu_read_unlock: the
\* read-side nesting depth it added is 0.
C24_RcuBalancedAtReturn ==
    \A p \in Invokers : loc[p].pc = "done" => loc[p].rcu = 0

\* the worker is blocked in schedule() with kcompcached_running = 1 and no
\* could_cswap call under way: could_cswap wakes only at
\* kcompcached_running = 0 and only the worker resets it
WakeLost ==
    /\ WorkerOffCpu
    /\ kcompcached_running = 1
    /\ cswap_pc = "idle"

\* C25: the handshake between could_cswap and the worker loses no wake-up:
\* the worker is never left asleep with kcompcached_running = 1, the state
\* from which no later could_cswap call wakes it.
C25_NoLostWakeup == ~WakeLost

\* every effective threshold is positive
ThresholdsPositive == \A i \in EffectiveEntries : Threshold(i) > 0

FreeBelow(p, i) == loc[p].other_free - loc[p].reserved_free < Threshold(i)

FileBelow(p, i) == loc[p].other_file < Threshold(i)

\* the lookup step of p selects the first effective entry that satisfies
\* Test, or ends in "no pressure" when no entry does
DecidedBy(p, Test(_)) ==
    IF \E i \in EffectiveEntries : Test(i)
    THEN \E i \in EffectiveEntries :
             /\ Test(i)
             /\ \A j \in EffectiveEntries : j < i => ~Test(j)
             /\ Selects(p, i)
    ELSE NoPressure(p)

\* C26: a negative free_pages - reserved_free satisfies the free test for
\* every positive threshold, as in a signed comparison, so the lookup is
\* decided by the file test alone; likewise a negative file count leaves the
\* decision to the free test alone.
C26_NegativeReadingIsBelow ==
    [][\A p \in Invokers :
          (LooksUp(p) /\ ThresholdsPositive) =>
              /\ loc[p].other_free - loc[p].reserved_free < 0
                     => DecidedBy(p, LAMBDA i : FileBelow(p, i))
              /\ loc[p].other_file < 0
                     => DecidedBy(p, LAMBDA i : FreeBelow(p, i))
      ]_vars

\* invoker p holds scan_mutex and is past the threshold lookup (line 318)
\* and before the lines that clear lmk_running (338, 467)
InsideScan(p) ==
    /\ scan_mutex = p
    /\ loc[p].nr_to_scan > 0
    /\ loc[p].pc \in {"scan", "kill", "exit"}

\* C27: lmk_running is 1 only while some invocation holds scan_mutex and is
\* between its threshold lookup and its return; while no invocation holds
\* the mutex, lmk_running is 0.
C27_RunningOnlyInsideScan ==
    /\ lmk_running = 1 => \E p \in Invokers : InsideScan(p)
    /\ scan_mutex = NULL => lmk_running = 0

\* C27 witness: direct reclaim holds the mutex at the exit of a completed
\* scan with lmk_running still 1, while a zero-request invocation, which
\* takes no lock, is at its lookup.
C27_Witness ==
    /\ lmk_running = 1
    /\ InsideScan(2) /\ loc[2].pc = "exit"
    /\ loc[1].pc = "lookup" /\ loc[1].nr_to_scan = 0

\* invoker p is inside the fill loop of lines 271-272: it has stored some
\* entries of minfree_tmp and not yet all of them
InFillLoop(p) ==
    /\ loc[p].pc = "lookup"
    /\ loc[p].i > 0
    /\ loc[p].i < lowmem_minfree_size

\* C28: minfree_tmp is written and read only by an invocation that holds
\* scan_mutex, and no two invocations, zero-request ones included, access it
\* at the same time while a boost is active.
C28_ScratchOnlyUnderLock ==
    /\ \A p \in Invokers : InFillLoop(p) => scan_mutex = p
    /\ \A p \in Invokers, q \in Invokers :
          InFillLoop(p) /\ InFillLoop(q) => p = q

\* the resident pages of the processes of S, each counted once
RECURSIVE RssOnce(_)
RssOnce(S) ==
    IF S = {} THEN 0
    ELSE LET t == CHOOSE x \in S : TRUE
         IN  tasks[t].rss + RssOnce(S \ {t})

\* C29: within one pass no process occupies more than one pool slot, so the
\* kill loop signals no process twice, and rem and lmk_count have changed
\* by one tasksize and by one for each process signalled so far.
C29_OncePerPass ==
    \A p \in Invokers :
        /\ \A a \in Slots, b \in Slots :
              loc[p].selected[a] # NULL /\ a # b
                  => loc[p].selected[a] # loc[p].selected[b]
        /\ \A m \in DOMAIN loc[p].killed, n \in DOMAIN loc[p].killed :
              m # n => loc[p].killed[m] # loc[p].killed[n]
        /\ loc[p].pc \in {"kill", "exit"}
              => /\ loc[p].rem = loc[p].lru - RssOnce(Signalled(p))
                 /\ lmk_count = Cardinality(Signalled(p))

\* C29 witness: a pass has signalled two different processes that look
\* alike (same oom_score_adj, same resident size), each once.
C29_Witness ==
    \E p \in Invokers :
        /\ loc[p].pc = "exit"
        /\ Len(loc[p].killed) = 2
        /\ tasks[loc[p].killed[1]] = tasks[loc[p].killed[2]]
        /\ lmk_count = 2

\* the adj list and the effective threshold list are both ascending
TablesAscending ==
    \A i \in EffectiveEntries, j \in EffectiveEntries :
        i < j => lowmem_adj[i] <= lowmem_adj[j] /\ Threshold(i) <= Threshold(j)

\* the cutoff the loop of lines 283-290 yields for the readings free and
\* file under the reserved margin, with the tables as they are
CutoffAt(free, file, reserved) ==
    LET n == ArraySize(lowmem_adj_size, lowmem_minfree_size)
        i == LookupIdx(0, n, free - reserved, file, [k \in Idx |-> Threshold(k)])
    IN  IF i < n THEN lowmem_adj[i] ELSE OOM_SCORE_ADJ_MAX + 1

\* the cutoff the lookup step of invoker p has computed
StepCutoff(p) ==
    IF loc'[p].pc = "done" THEN OOM_SCORE_ADJ_MAX + 1 ELSE loc'[p].min_score_adj

\* C30: with ascending tables and non-negative readings the lookup is
\* monotone in pressure: for free' <= free and file' <= file under the same
\* reserved margin, the cutoff for (free', file') is at most the cutoff for
\* (free, file), "no pressure" counting as larger than every cutoff.
C30_LookupMonotone ==
    [][\A p \in Invokers :
          ( /\ LooksUp(p)
            /\ TablesAscending
            /\ loc[p].other_free >= 0
            /\ loc[p].other_file >= 0 )
          => \A free \in LookupFreeSet, file \in LookupFileSet :
                ( /\ 0 <= free /\ free <= loc[p].other_free
                  /\ 0 <= file /\ file <= loc[p].other_file )
                => CutoffAt(free, file, loc[p].reserved_free) <= StepCutoff(p)
      ]_vars

\* min(6, adj length, minfree length)
CommonLength ==
    LET a == IF lowmem_adj_size < lowmem_minfree_size
             THEN lowmem_adj_size ELSE lowmem_minfree_size
    IN  IF a < TABLE_SLOTS THEN a ELSE TABLE_SLOTS

\* a slot at or beyond the shorter list whose stale threshold is above both
\* readings of invoker p
StaleEntryBelow(p) ==
    \E j \in Idx : j >= CommonLength /\ BothBelow(p, j)

\* list lengths a parameter write could ask for, past the six slots
LengthSet == 0 .. (TABLE_SLOTS + 2)

\* C31: with adj and minfree lists of different lengths the lookup considers
\* only the entries below min(6, adj length, minfree length): the entry it
\* selects is below that bound, an entry at or beyond it never produces a
\* cutoff, and every index read lies within the six slots of the tables.
C31_OnlyCommonPrefix ==
    [][\A p \in Invokers :
          LooksUp(p) =>
              /\ loc'[p].pc # "done"
                    => /\ loc'[p].array_size = CommonLength
                       /\ loc'[p].entry < CommonLength
                       /\ loc'[p].entry \in Idx
                       /\ BothBelow(p, loc'[p].entry)
                       /\ loc'[p].min_score_adj = lowmem_adj[loc'[p].entry]
              /\ (\A i \in Idx : i < CommonLength => ~BothBelow(p, i))
                    => NoPressure(p)
              /\ lowmem_minfree_size \in 0 .. TABLE_SLOTS
              /\ lowmem_adj_size \in 0 .. TABLE_SLOTS
              /\ \A a \in LengthSet, m \in LengthSet :
                    /\ ArraySize(a, m) <= TABLE_SLOTS
                    /\ ArraySize(a, m) <= a
                    /\ ArraySize(a, m) <= m
      ]_vars

\* C31 witness: the adj list was cut to one entry while minfree keeps its
\* four; a lookup found entry 0 not crossed and returned the LRU total
\* without a scan, the later minfree entries notwithstanding.
C31_Witness ==
    /\ lowmem_adj_size = 1
    /\ lowmem_minfree_size = 4
    /\ lowmem_minfree = DefaultMinfree
    /\ loc[2].pc = "done"
    /\ loc[2].ret \in LruSet
    /\ loc[2].rcu = 0

\* this step lowers hidden_cgroup_counter
Decrements == hidden_cgroup_counter' < hidden_cgroup_counter

\* C32: could_cswap decrements hidden_cgroup_counter (and clears idle_report
\* and resets prev_jiffy) only when idle_report is 1, the counter is above 0
\* and a daemon is registered, without waking the worker, and never drives
\* the counter below 0, also when it runs on several CPUs at once.
C32_ReportOnlyWhenDue ==
    [][Decrements =>
          /\ idle_report = 1
          /\ hidden_cgroup_counter > 0
          /\ rtcc_daemon # NULL
          /\ hidden_cgroup_counter' = hidden_cgroup_counter - 1
          /\ hidden_cgroup_counter' >= 0
          /\ idle_report' = 0
          /\ prev_jiffy' = jiffies
          /\ kcompcached' = kcompcached
          /\ kcompcached_running' = kcompcached_running
      ]_vars

====
